---- MODULE Spec2Model ----
(***************************************************************************)
(* Model of the RIFT control-plane core of rift_rust: the LIE and ZTP      *)
(* state machines (src/src/lie_exchange.rs), the node driver               *)
(* (src/src/network.rs) and the flooding queues (src/src/tie_exchange.rs). *)
(*                                                                         *)
(* Conventions                                                             *)
(*   Option<T>      None is <<>>, Some(x) is <<x>>.                        *)
(*   Level          Level::Undefined is -1, Level::Value(n) is n; the      *)
(*                  derived Ord of the enum puts Undefined below any value.*)
(*   Timer          "unset" (start = None), "running", "expired"           *)
(*                  (started and elapsed > length).                        *)
(*   panic          unreachable!(), todo!(), unwrap() on None and a failed *)
(*                  assert! end the program: pc = "panic".                 *)
(*   error          an io error of recv or send is returned by the step    *)
(*                  and main returns it: pc = "error".                     *)
(***************************************************************************)
EXTENDS Integers, Sequences, FiniteSets, TLC

\* ------------------------------------------------------------------------
\* Program constants
\* ------------------------------------------------------------------------
Undefined == -1
LEAF_LEVEL == 0
ILLEGAL_SYSTEM_I_D == 0

\* ------------------------------------------------------------------------
\* Bounds of the model
\* ------------------------------------------------------------------------
\* Number of node steps a run takes.
MaxSteps == 2
\* Number of LIE packets the node receives in a run.
MaxPackets == 2
\* Highest level value a received LIE advertises.
MaxLevel == 2

\* ------------------------------------------------------------------------
\* Small helpers
\* ------------------------------------------------------------------------
None == <<>>
Some(x) == <<x>>
IsSome(o) == o # <<>>
Unwrap(o) == o[1]

SetMax(S) == CHOOSE x \in S : \A y \in S : y <= x

\* Option<Level> of the maximum of a set of levels (Iterator::max).
OptMax(S) == IF S = {} THEN None ELSE Some(SetMax(S))

\* Timer (lie_exchange.rs)
Timer_new == "unset"
Timer_start == "running"
Timer_force_expire == "unset"
Timer_is_expired(t) == t # "running"

\* ------------------------------------------------------------------------
\* Value domains
\* ------------------------------------------------------------------------
\* System id of the modelled node, and the ids received LIEs may carry.
SelfId == 1
SystemIDs == {ILLEGAL_SYSTEM_I_D, SelfId, 2, 3}
Levels == {Undefined} \cup (0 .. MaxLevel)
LieStates == {"OneWay", "TwoWay", "ThreeWay", "MultipleNeighborsWait"}
ZtpStates == {"ComputeBestOffer", "HoldingDown", "UpdatingClients"}

\* ------------------------------------------------------------------------
\* Events
\* ------------------------------------------------------------------------
LieEvent(name) == [name |-> name, level |-> Undefined, pkt |-> None]
LieLevelEvent(name, lvl) == [name |-> name, level |-> lvl, pkt |-> None]
LieRcvd(p) == [name |-> "LieRcvd", level |-> Undefined, pkt |-> Some(p)]

ZtpEvent(name) == [name |-> name, offer |-> None, level |-> Undefined]
NeighborOffer(o) == [name |-> "NeighborOffer", offer |-> Some(o), level |-> Undefined]
ChangeLocalConfiguredLevel(lvl) ==
    [name |-> "ChangeLocalConfiguredLevel", offer |-> None, level |-> lvl]

\* ------------------------------------------------------------------------
\* ZTP state machine (lie_exchange.rs, ZtpStateMachine)
\* ------------------------------------------------------------------------
NoOffers == [s \in SystemIDs |-> None]

ZtpStateMachine_new(configured_level) ==
    [ state |-> "ComputeBestOffer",
      external_event_queue |-> <<>>,
      chained_event_queue |-> <<>>,
      configured_level |-> configured_level,
      offers |-> NoOffers,
      holddown_timer |-> Timer_new,
      highest_available_level |-> Undefined,
      highest_adjacency_threeway |-> Undefined,
      hal_needs_resend |-> FALSE,
      hals_needs_resend |-> FALSE,
      hat_needs_resend |-> FALSE,
      compare_offer_results |-> [hal |-> None, hat |-> None] ]

\* The values of the offers HashMap.
OfferValues(z) == {Unwrap(z.offers[s]) : s \in {t \in SystemIDs : IsSome(z.offers[t])}}

Ztp_push_external_event(z, event) ==
    [z EXCEPT !.external_event_queue = Append(@, event)]

Ztp_push(z, event) ==
    [z EXCEPT !.chained_event_queue = Append(@, event)]

\* Faulty variant of derived_level: the subtraction wraps around in the u8.
derived_level_wrapping(z) ==
    IF z.highest_available_level = Undefined THEN Undefined
    ELSE (z.highest_available_level - 1) % 256

derived_level(z) ==
    IF z.highest_available_level = Undefined THEN Undefined
    ELSE IF z.highest_available_level = 0 THEN 0
    ELSE z.highest_available_level - 1

Ztp_level(z) ==
    IF z.configured_level = Undefined THEN derived_level(z) ELSE z.configured_level

\* COMPARE_OFFERS: the events to push, and the fsm with the results stored.
compare_offers(z) ==
    LET best_offer == OptMax({o.level : o \in OfferValues(z)})
        best_offer_hat ==
            OptMax({o.level : o \in {x \in OfferValues(z) : x.state = "ThreeWay"}})
        hal_event ==
            IF IsSome(best_offer) /\ z.highest_available_level # Unwrap(best_offer)
            THEN ZtpEvent("BetterHAL") ELSE ZtpEvent("LostHAL")
        hat_event ==
            IF IsSome(best_offer_hat) /\ z.highest_adjacency_threeway # Unwrap(best_offer_hat)
            THEN ZtpEvent("BetterHAT") ELSE ZtpEvent("LostHAT")
    IN  [ events |-> <<hal_event, hat_event>>,
          z |-> [z EXCEPT !.compare_offer_results =
                              [hal |-> best_offer, hat |-> best_offer_hat]] ]

\* "for event in self.compare_offers() { self.push(event) }"
PushCompareOffers(z) ==
    LET r == compare_offers(z)
    IN  [r.z EXCEPT !.chained_event_queue = @ \o r.events]

update_offer(z, offer) ==
    PushCompareOffers([z EXCEPT !.offers[offer.system_id] = Some(offer)])

remove_offer(z, offer) ==
    PushCompareOffers([z EXCEPT !.offers[offer.system_id] = None])

purge_offers(z) ==
    PushCompareOffers([z EXCEPT !.offers = NoOffers])

\* Faulty variant of process_offer: every offer is stored.
process_offer_stores_all(z, offer) == update_offer(z, offer)

process_offer(z, offer) ==
    IF offer.level = Undefined THEN remove_offer(z, offer)
    ELSE IF offer.level > LEAF_LEVEL THEN update_offer(z, offer)
    ELSE remove_offer(z, offer)

level_compute(z) ==
    LET new_hal == z.compare_offer_results.hal
        new_hat == z.compare_offer_results.hat
        hal_changed == IsSome(new_hal) /\ Unwrap(new_hal) # z.highest_available_level
        hat_changed == IsSome(new_hat) /\ Unwrap(new_hat) # z.highest_adjacency_threeway
        z1 == IF hal_changed
              THEN [z EXCEPT !.highest_available_level = Unwrap(new_hal),
                             !.hal_needs_resend = TRUE]
              ELSE z
        z2 == IF hat_changed
              THEN [z1 EXCEPT !.highest_adjacency_threeway = Unwrap(new_hat),
                              !.hat_needs_resend = TRUE]
              ELSE z1
    IN  IF hal_changed \/ hat_changed
        THEN Ztp_push(z2, ZtpEvent("ComputationDone"))
        ELSE z2

store_leaf_flags(z) == z

store_configured_level(z, new_level) == [z EXCEPT !.configured_level = new_level]

remove_expired_offers(z) ==
    [z EXCEPT !.offers =
        [s \in SystemIDs |->
            IF IsSome(z.offers[s]) /\ Unwrap(z.offers[s]).expired THEN None
            ELSE z.offers[s]]]

check_sounthbound_adjacencies(z) ==
    IF \E o \in OfferValues(z) : o.level < Ztp_level(z)
    THEN [z EXCEPT !.holddown_timer = Timer_start]
    ELSE [z EXCEPT !.holddown_timer = Timer_force_expire]

expire_offer_by_id(z, system_id) ==
    IF IsSome(z.offers[system_id])
    THEN [z EXCEPT !.offers[system_id] = Some([Unwrap(@) EXCEPT !.expired = TRUE])]
    ELSE z

\* The (state, event) pairs whose arm is unreachable!().
Ztp_unreachable(state, name) ==
    \/ state = "HoldingDown" /\ name = "HoldDownExpired"
    \/ state = "UpdatingClients" /\ name \in {"ComputationDone", "HoldDownExpired"}

\* process_ztp_event: the fsm after the arm's actions, and the state to go to.
ZR(z, new_state) == [z |-> z, new_state |-> new_state]

process_ztp_event(z, event) ==
    LET n == event.name IN
    CASE z.state = "ComputeBestOffer" ->
           ( CASE n = "ChangeLocalConfiguredLevel" ->
                    ZR(store_configured_level(z, event.level), "ComputeBestOffer")
               [] n = "ShortTic" ->
                    LET z1 == remove_expired_offers(z) IN
                    ZR(IF Timer_is_expired(z1.holddown_timer)
                       THEN Ztp_push(z1, ZtpEvent("HoldDownExpired")) ELSE z1,
                       "HoldingDown")
               [] n = "NeighborOffer" ->
                    ZR(process_offer(z, Unwrap(event.offer)), "HoldingDown")
               [] n = "HoldDownExpired" -> ZR(purge_offers(z), "ComputeBestOffer")
               [] n = "ChangeLocalHierarchyIndications" ->
                    ZR(store_leaf_flags(z), "ComputeBestOffer")
               [] OTHER -> ZR(z, "HoldingDown") )
      [] z.state = "HoldingDown" ->
           ( CASE n \in {"LostHAT", "BetterHAT", "BetterHAL"} ->
                    ZR(level_compute(z), "ComputeBestOffer")
               [] n = "NeighborOffer" ->
                    ZR(process_offer(z, Unwrap(event.offer)), "ComputeBestOffer")
               [] n = "ChangeLocalHierarchyIndications" ->
                    ZR(level_compute(store_leaf_flags(z)), "ComputeBestOffer")
               [] n = "LostHAL" -> ZR(check_sounthbound_adjacencies(z), "HoldingDown")
               [] n = "ShortTic" -> ZR(remove_expired_offers(z), "ComputeBestOffer")
               [] n = "ComputationDone" -> ZR(z, "UpdatingClients")
               [] n = "ChangeLocalConfiguredLevel" ->
                    ZR(level_compute(store_configured_level(z, event.level)),
                       "ComputeBestOffer")
               [] OTHER -> ZR(z, z.state) )
      [] z.state = "UpdatingClients" ->
           ( CASE n = "ShortTic" -> ZR(remove_expired_offers(z), "UpdatingClients")
               [] n = "LostHAL" -> ZR(check_sounthbound_adjacencies(z), "HoldingDown")
               [] n \in {"BetterHAT", "BetterHAL", "LostHAT"} -> ZR(z, "ComputeBestOffer")
               [] n = "ChangeLocalConfiguredLevel" ->
                    ZR(store_configured_level(z, event.level), "ComputeBestOffer")
               [] n = "ChangeLocalHierarchyIndications" ->
                    ZR(store_leaf_flags(z), "ComputeBestOffer")
               [] n = "NeighborOffer" ->
                    ZR(process_offer(z, Unwrap(event.offer)), "UpdatingClients")
               [] OTHER -> ZR(z, z.state) )

\* Faulty variant of the entry action of UpdatingClients: LevelChanged is
\* never published.
UpdatingClientsEvents_no_level(z) ==
    (IF z.hal_needs_resend
     THEN <<LieLevelEvent("HALChanged", z.highest_available_level)>> ELSE <<>>)
    \o (IF z.hat_needs_resend
        THEN <<LieLevelEvent("HATChanged", z.highest_adjacency_threeway)>> ELSE <<>>)
    \o (IF z.hals_needs_resend THEN <<LieEvent("HALSChanged")>> ELSE <<>>)

\* The LIE-FSM events published on entry to UpdatingClients.
UpdatingClientsEvents(z) ==
    (IF z.hal_needs_resend
     THEN <<LieLevelEvent("HALChanged", z.highest_available_level)>>
          \o (IF z.highest_available_level # Undefined
              THEN <<LieLevelEvent("LevelChanged", Ztp_level(z))>> ELSE <<>>)
     ELSE <<>>)
    \o (IF z.hat_needs_resend
        THEN <<LieLevelEvent("HATChanged", z.highest_adjacency_threeway)>> ELSE <<>>)
    \o (IF z.hals_needs_resend THEN <<LieEvent("HALSChanged")>> ELSE <<>>)

\* transition_to of the ZTP FSM: the fsm in its new state and the events returned.
Ztp_transition_to(z, new_state) ==
    IF new_state = z.state THEN [z |-> z, events |-> <<>>]
    ELSE IF new_state = "ComputeBestOffer"
    THEN [z |-> [level_compute(z) EXCEPT !.state = new_state], events |-> <<>>]
    ELSE IF new_state = "UpdatingClients"
    THEN [z |-> [z EXCEPT !.hal_needs_resend = FALSE,
                          !.hat_needs_resend = FALSE,
                          !.hals_needs_resend = FALSE,
                          !.state = new_state],
          events |-> UpdatingClientsEvents(z)]
    ELSE [z |-> [z EXCEPT !.state = new_state], events |-> <<>>]

\* One event of the ZTP FSM: process_ztp_event followed by transition_to.
Ztp_handle(z, event) ==
    LET r == process_ztp_event(z, event)
    IN  Ztp_transition_to(r.z, r.new_state)


\* ------------------------------------------------------------------------
\* LIE state machine (lie_exchange.rs, LieStateMachine)
\* ------------------------------------------------------------------------
PROTOCOL_MAJOR_VERSION == "major"
DEFAULT_MTU_SIZE == 1400

LieStateMachine_new(configured_level) ==
    [ lie_state |-> "OneWay",
      external_event_queue |-> <<>>,
      chained_event_queue |-> <<>>,
      level |-> configured_level,
      highest_available_level |-> Undefined,
      highest_adjacency_threeway |-> Undefined,
      neighbor |-> None,
      last_valid_lie |-> None,
      multiple_neighbors_timer |-> Timer_new ]

Lie_push_external_event(f, event) ==
    [f EXCEPT !.external_event_queue = Append(@, event)]

Lie_push(f, event) ==
    [f EXCEPT !.chained_event_queue = Append(@, event)]

\* Faulty variant of cleanup: the neighbor is kept.
cleanup_keeps_neighbor(f) == f

cleanup(f) == [f EXCEPT !.neighbor = None]

update_level(f, new_level) == [f EXCEPT !.level = new_level]
store_hal(f, new_hal) == [f EXCEPT !.highest_available_level = new_hal]
store_hat(f, new_hat) == [f EXCEPT !.highest_adjacency_threeway = new_hat]
store_hals(f) == f
start_multiple_neighbors_timer(f) == [f EXCEPT !.multiple_neighbors_timer = Timer_start]

is_lie_expired(f) ==
    IF IsSome(f.last_valid_lie) THEN Timer_is_expired(Unwrap(f.last_valid_lie).timer)
    ELSE TRUE

\* send_offer: the ZTP fsm with the offer of the last valid LIE queued.
send_offer(f, z) ==
    IF IsSome(f.last_valid_lie)
    THEN Ztp_push_external_event(z,
            NeighborOffer([ level |-> Unwrap(f.last_valid_lie).level,
                            system_id |-> Unwrap(f.last_valid_lie).sender,
                            state |-> f.lie_state,
                            expired |-> FALSE ]))
    ELSE z

expire_offer(z, system_id) == expire_offer_by_id(z, system_id)

\* Faulty variant of check_three_way: in TwoWay any reflection counts as valid.
check_three_way_any_reflection(f, packet, system_id, local_link_id) ==
    CASE f.lie_state = "TwoWay" /\ IsSome(packet.neighbor) ->
            Lie_push(f, LieEvent("ValidReflection"))
      [] f.lie_state = "ThreeWay" /\ packet.neighbor = None ->
            Lie_push(f, LieEvent("NeighborDroppedReflection"))
      [] OTHER -> f

check_three_way(f, packet, system_id, local_link_id) ==
    CASE f.lie_state = "TwoWay" /\ IsSome(packet.neighbor) ->
            IF /\ Unwrap(packet.neighbor).originator = system_id
               /\ Unwrap(packet.neighbor).remote_id = local_link_id
            THEN Lie_push(f, LieEvent("ValidReflection"))
            ELSE Lie_push(f, LieEvent("MultipleNeighbors"))
      [] f.lie_state = "ThreeWay" /\ packet.neighbor = None ->
            Lie_push(f, LieEvent("NeighborDroppedReflection"))
      [] OTHER -> f

AbsDiff(a, b) == IF a < b THEN b - a ELSE a - b

\* The level check of PROCESS_LIE (rules 5 and 6 of section 4.2.2).
accept_lie(f, lie_level) ==
    IF lie_level = Undefined THEN FALSE
    ELSE IF f.level = Undefined THEN FALSE
    ELSE LET local_is_leaf == f.level = LEAF_LEVEL
             remote_is_leaf == lie_level = LEAF_LEVEL
             allow_east_west == FALSE
             remote_below_hat ==
                 IF f.highest_adjacency_threeway = Undefined THEN FALSE
                 ELSE lie_level = f.highest_adjacency_threeway
             level_diff == AbsDiff(lie_level, f.level)
         IN  \/ local_is_leaf /\ ~remote_below_hat
             \/ ~local_is_leaf /\ remote_is_leaf
             \/ local_is_leaf /\ remote_is_leaf /\ allow_east_west
             \/ ~local_is_leaf /\ ~remote_is_leaf /\ level_diff <= 1

\* Faulty variant of lie_is_rejected: a LIE of the own system id passes.
lie_is_rejected_but_own(packet, system_id) ==
    \/ packet.major_version # PROTOCOL_MAJOR_VERSION
    \/ packet.sender = ILLEGAL_SYSTEM_I_D

\* The condition of step 1 of PROCESS_LIE.
lie_is_rejected(packet, system_id) ==
    \/ packet.major_version # PROTOCOL_MAJOR_VERSION
    \/ packet.sender = system_id
    \/ packet.sender = ILLEGAL_SYSTEM_I_D

\* Faulty variant of mtu_mismatch: the two events are pushed in the other
\* order.
mtu_mismatch_swapped(f) ==
    Lie_push(Lie_push(cleanup(f), LieEvent("MTUMismatch")), LieEvent("UpdateZTPOffer"))

\* Step 2 of PROCESS_LIE, for a LIE of another MTU.
mtu_mismatch(f) ==
    Lie_push(Lie_push(cleanup(f), LieEvent("UpdateZTPOffer")), LieEvent("MTUMismatch"))

process_lie_procedure(f, packet, system_id, local_link_id, socket_mtu) ==
    IF lie_is_rejected(packet, system_id)
    THEN cleanup(f)
    ELSE IF packet.link_mtu_size # Some(socket_mtu)
    THEN mtu_mismatch(f)
    ELSE
      LET f1 == [f EXCEPT !.last_valid_lie =
                     Some([timer |-> Timer_start, sender |-> packet.sender,
                           level |-> packet.level])]
      IN
      IF ~accept_lie(f1, packet.level)
      THEN Lie_push(Lie_push(cleanup(f1), LieEvent("UpdateZTPOffer")),
                    LieEvent("UnacceptableHeader"))
      ELSE
        LET f2 == Lie_push(f1, LieEvent("UpdateZTPOffer"))
            new_neighbor == [ name |-> packet.name,
                              system_id |-> packet.sender,
                              local_link_id |-> packet.local_id,
                              level |-> packet.level,
                              address |-> packet.address,
                              flood_port |-> packet.flood_port ]
        IN
        IF f2.neighbor = None
        THEN check_three_way(
                 Lie_push([f2 EXCEPT !.neighbor = Some(new_neighbor)], LieEvent("NewNeighbor")),
                 packet, system_id, local_link_id)
        ELSE
          LET curr_neighbor == Unwrap(f2.neighbor) IN
          IF curr_neighbor.system_id # new_neighbor.system_id
          THEN Lie_push(f2, LieEvent("MultipleNeighbors"))
          ELSE IF curr_neighbor.level # new_neighbor.level
          THEN Lie_push(f2, LieEvent("NeighborChangedLevel"))
          ELSE IF curr_neighbor.address # new_neighbor.address
          THEN Lie_push(f2, LieEvent("NeighborChangedAddress"))
          ELSE IF \/ curr_neighbor.flood_port # new_neighbor.flood_port
                  \/ curr_neighbor.name # new_neighbor.name
                  \/ curr_neighbor.local_link_id # new_neighbor.local_link_id
          THEN Lie_push(f2, LieEvent("NeighborChangedMinorFields"))
          ELSE check_three_way(f2, packet, system_id, local_link_id)

\* The (state, event) pairs whose arm is unreachable!().
Lie_unreachable(state, name) ==
    \/ state = "OneWay" /\ name = "MultipleNeighborsDone"
    \/ state = "TwoWay" /\ name \in {"NeighborDroppedReflection",
                                     "NeighborChangedMinorFields",
                                     "MultipleNeighborsDone"}
    \/ state = "ThreeWay" /\ name \in {"NewNeighbor", "NeighborChangedMinorFields",
                                       "MultipleNeighborsDone"}
    \/ state = "MultipleNeighborsWait" /\ name \in {"NewNeighbor", "NeighborChangedLevel",
                                                    "NeighborChangedMinorFields"}


\* Result of process_lie_event: Ok(new_state) with the two fsms after the arm's
\* actions, or the io error of a failed send (the fsms as they were).
LR(f, z, new_state) == [f |-> f, z |-> z, new_state |-> new_state, io_error |-> FALSE]
LErr(f, z) == [f |-> f, z |-> z, new_state |-> f.lie_state, io_error |-> TRUE]

\* send_lie_procedure: succeeds or fails as the socket's send does.
send_lie_procedure(f, z, send_ok, new_state) ==
    IF send_ok THEN LR(f, z, new_state) ELSE LErr(f, z)

\* Faulty variant of TimerTickAdjacent: the holdtime is never looked at.
TimerTickAdjacent_send_only(f) == Lie_push(f, LieEvent("SendLie"))

\* TimerTick in TwoWay and ThreeWay.
TimerTickAdjacent(f) ==
    LET f1 == Lie_push(f, LieEvent("SendLie"))
    IN  IF is_lie_expired(f1) THEN Lie_push(f1, LieEvent("HoldtimeExpired")) ELSE f1

\* Faulty variant of TwoWay_ValidReflection: the FSM stays in TwoWay.
TwoWay_ValidReflection_stay(f, z) == LR(f, z, "TwoWay")

\* The arm of ValidReflection in TwoWay.
TwoWay_ValidReflection(f, z) == LR(f, z, "ThreeWay")

\* Faulty variant of MultipleNeighborsWait_TimerTick: the timer is never
\* looked at.
MultipleNeighborsWait_TimerTick_ignored(f) == f

\* TimerTick in MultipleNeighborsWait.
MultipleNeighborsWait_TimerTick(f) ==
    IF Timer_is_expired(f.multiple_neighbors_timer)
    THEN Lie_push(f, LieEvent("MultipleNeighborsDone")) ELSE f

\* process_lie_event, for the pairs that are not unreachable!().
\* ctx: [system_id, local_link_id, mtu] of the link, and the outcome of a send.
process_lie_event(f, z, event, ctx, send_ok) ==
    LET n == event.name
        PROCESS_LIE == process_lie_procedure(f, Unwrap(event.pkt), ctx.system_id,
                                             ctx.local_link_id, ctx.mtu)
    IN
    CASE f.lie_state = "OneWay" ->
           ( CASE n = "TimerTick" -> LR(Lie_push(f, LieEvent("SendLie")), z, "OneWay")
               [] n = "LevelChanged" ->
                    LR(Lie_push(update_level(f, event.level), LieEvent("SendLie")), z, "OneWay")
               [] n = "NewNeighbor" -> LR(Lie_push(f, LieEvent("SendLie")), z, "TwoWay")
               [] n = "HoldtimeExpired" -> LR(f, expire_offer(z, ctx.system_id), "OneWay")
               [] n = "HALSChanged" -> LR(store_hals(f), z, "OneWay")
               [] n = "LieRcvd" -> LR(PROCESS_LIE, z, "OneWay")
               [] n = "ValidReflection" -> LR(f, z, "ThreeWay")
               [] n = "SendLie" -> send_lie_procedure(f, z, send_ok, "OneWay")
               [] n = "UpdateZTPOffer" -> LR(f, send_offer(f, z), "OneWay")
               [] n = "HATChanged" -> LR(store_hat(f, event.level), z, "OneWay")
               [] n = "MultipleNeighbors" ->
                    LR(start_multiple_neighbors_timer(f), z, "MultipleNeighborsWait")
               [] n = "HALChanged" -> LR(store_hal(f, event.level), z, "OneWay")
               [] OTHER -> LR(f, z, "OneWay") )
      [] f.lie_state = "TwoWay" ->
           ( CASE n \in {"NeighborChangedAddress", "MTUMismatch", "UnacceptableHeader",
                         "NeighborChangedLevel"} -> LR(f, z, "OneWay")
               [] n = "LieRcvd" -> LR(PROCESS_LIE, z, "TwoWay")
               [] n = "UpdateZTPOffer" -> LR(f, send_offer(f, z), "TwoWay")
               [] n = "HoldtimeExpired" -> LR(f, expire_offer(z, ctx.system_id), "OneWay")
               [] n = "ValidReflection" -> TwoWay_ValidReflection(f, z)
               [] n = "SendLie" -> send_lie_procedure(f, z, send_ok, "TwoWay")
               [] n = "HATChanged" -> LR(store_hat(f, event.level), z, "TwoWay")
               [] n = "HALChanged" -> LR(store_hal(f, event.level), z, "TwoWay")
               [] n = "LevelChanged" -> LR(update_level(f, event.level), z, "TwoWay")
               [] n = "NewNeighbor" ->
                    send_lie_procedure(f, z, send_ok, "MultipleNeighborsWait")
               [] n = "TimerTick" -> LR(TimerTickAdjacent(f), z, "TwoWay")
               [] n = "MultipleNeighbors" ->
                    LR(start_multiple_neighbors_timer(f), z, "MultipleNeighborsWait")
               [] n = "HALSChanged" -> LR(store_hals(f), z, "TwoWay")
               [] OTHER -> LR(f, z, "TwoWay") )
      [] f.lie_state = "ThreeWay" ->
           ( CASE n \in {"NeighborChangedAddress", "UnacceptableHeader",
                         "NeighborChangedLevel", "MTUMismatch"} -> LR(f, z, "OneWay")
               [] n = "ValidReflection" -> LR(f, z, "ThreeWay")
               [] n = "HoldtimeExpired" -> LR(f, expire_offer(z, ctx.system_id), "OneWay")
               [] n = "NeighborDroppedReflection" -> LR(f, z, "TwoWay")
               [] n = "HALChanged" -> LR(store_hal(f, event.level), z, "ThreeWay")
               [] n = "MultipleNeighbors" ->
                    LR(start_multiple_neighbors_timer(f), z, "MultipleNeighborsWait")
               [] n = "LevelChanged" -> LR(update_level(f, event.level), z, "OneWay")
               [] n = "HALSChanged" -> LR(store_hals(f), z, "ThreeWay")
               [] n = "TimerTick" -> LR(TimerTickAdjacent(f), z, "ThreeWay")
               [] n = "HATChanged" -> LR(store_hat(f, event.level), z, "ThreeWay")
               [] n = "UpdateZTPOffer" -> LR(f, send_offer(f, z), "ThreeWay")
               [] n = "LieRcvd" -> LR(PROCESS_LIE, z, "ThreeWay")
               [] n = "SendLie" -> send_lie_procedure(f, z, send_ok, "ThreeWay")
               [] OTHER -> LR(f, z, "ThreeWay") )
      [] f.lie_state = "MultipleNeighborsWait" ->
           ( CASE n = "HoldtimeExpired" ->
                    LR(f, expire_offer(z, ctx.system_id), "MultipleNeighborsWait")
               [] n = "LevelChanged" -> LR(update_level(f, event.level), z, "OneWay")
               [] n = "UpdateZTPOffer" -> LR(f, send_offer(f, z), "MultipleNeighborsWait")
               [] n = "MultipleNeighborsDone" -> LR(f, z, "OneWay")
               [] n = "HATChanged" -> LR(store_hat(f, event.level), z, "MultipleNeighborsWait")
               [] n = "HALSChanged" -> LR(store_hals(f), z, "MultipleNeighborsWait")
               [] n = "HALChanged" -> LR(store_hal(f, event.level), z, "MultipleNeighborsWait")
               [] n = "MultipleNeighbors" ->
                    LR(start_multiple_neighbors_timer(f), z, "MultipleNeighborsWait")
               [] n = "TimerTick" ->
                    LR(MultipleNeighborsWait_TimerTick(f), z, "MultipleNeighborsWait")
               [] OTHER -> LR(f, z, "MultipleNeighborsWait") )

\* transition_to reads neighbor.unwrap() on entry to ThreeWay.
Lie_transition_unwraps_none(f, new_state) ==
    new_state # f.lie_state /\ new_state = "ThreeWay" /\ f.neighbor = None

\* transition_to of the LIE FSM: CLEANUP on entry to OneWay.
Lie_transition_to(f, new_state) ==
    IF new_state = f.lie_state THEN f
    ELSE IF new_state = "OneWay" THEN [cleanup(f) EXCEPT !.lie_state = new_state]
    ELSE [f EXCEPT !.lie_state = new_state]


\* ------------------------------------------------------------------------
\* TIE queues (tie_exchange.rs, TieStateMachine)
\* ------------------------------------------------------------------------
\* Highest sequence number of a TIE header.
MaxSeqNr == 2
TieIds == {"tie_a", "tie_b"}

\* A TIEHeader, as its Ord compares it: by TIEID, then by sequence number.
TieHeaders == [tie_id : TieIds, seq_nr : 1 .. MaxSeqNr]

\* The four BTreeSet<TIEHeader> of TieStateMachine::new.
TieStateMachine_new ==
    [ transmit_ties |-> {}, acknoledge_ties |-> {}, requested_ties |-> {},
      retransmit_ties |-> {} ]

\* is_flood_filtered and is_request_filtered: predicates of the flooding
\* scope, any outcome.
is_flood_filtered(header) == BOOLEAN
is_request_filtered(header) == BOOLEAN

\* try_to_transmit_tie, when the header is not filtered: the queues it leaves,
\* and whether it ran into the todo!() of the branch of a header found on
\* TIES_ACK.
try_to_transmit_tie(t, header) ==
    LET t1 == [t EXCEPT !.requested_ties = @ \ {header}]
    IN  IF header \in t1.acknoledge_ties
        THEN [ t |-> [t1 EXCEPT !.acknoledge_ties = (@ \ {header}) \cup {header}],
               todo |-> TRUE ]
        ELSE [ t |-> [t1 EXCEPT !.transmit_ties = @ \cup {header}], todo |-> FALSE ]

tie_been_acked(t, header) ==
    [ transmit_ties |-> t.transmit_ties \ {header},
      acknoledge_ties |-> t.acknoledge_ties \ {header},
      retransmit_ties |-> t.retransmit_ties \ {header},
      requested_ties |-> t.requested_ties \ {header} ]

ack_tie(t, header) ==
    [tie_been_acked(t, header) EXCEPT !.acknoledge_ties = @ \cup {header}]

remove_from_all_queues(t, header) == tie_been_acked(t, header)

request_tie(t, header) ==
    [remove_from_all_queues(t, header) EXCEPT !.requested_ties = @ \cup {header}]

move_to_rtx_list(t, header) ==
    [t EXCEPT !.transmit_ties = @ \ {header}, !.retransmit_ties = @ \ {header}]

\* Number of headers a received TIDE carries at most.
MaxTideHeaders == 2

\* The derived Ord of TIEID, on the two TIEIDs of the model.
TieIdRank(id) == IF id = "tie_a" THEN 1 ELSE 2
TieIdLess(a, b) == TieIdRank(a) < TieIdRank(b)

\* LinkStateDatabase::new: no TIE is stored, and find returns None for every
\* header.
LinkStateDatabase_new == {}
find(ls_db, header) ==
    IF \E t \in ls_db : t = header THEN Some(header) ELSE None

\* The loop over the headers of a TIDE (step b of process_tide): "error" when
\* a header is below LASTPROCESSED, "todo" when the loop runs into
\* bump_own_tie, else "ok" with the headers put into REQKEYS.
RECURSIVE process_tide_headers(_, _, _, _)
process_tide_headers(headers, last_processed, is_originator, req_keys) ==
    IF headers = <<>> THEN [result |-> "ok", req_keys |-> req_keys]
    ELSE LET header == Head(headers)
             db_tie == find(LinkStateDatabase_new, header)
         IN  IF TieIdLess(header.tie_id, last_processed)
             THEN [result |-> "error", req_keys |-> <<>>]
             ELSE IF db_tie = None /\ is_originator
             THEN [result |-> "todo", req_keys |-> <<>>]
             ELSE process_tide_headers(Tail(headers), header.tie_id, is_originator,
                                       Append(req_keys, header))

\* Step e of process_tide: request_tie for the headers of REQKEYS, in order;
\* passed holds the headers is_request_filtered lets through.
RECURSIVE request_ties(_, _, _)
request_ties(t, req_keys, passed) ==
    IF req_keys = <<>> THEN t
    ELSE request_ties(IF Head(req_keys) \in passed THEN request_tie(t, Head(req_keys))
                      ELSE t,
                      Tail(req_keys), passed)

\* process_tide on the empty link state database: the queues it leaves and how
\* it ends. The keys are collected in local vectors, so the queues are as
\* they were when it returns the error.
process_tide(t, is_originator, tide, passed) ==
    LET r == process_tide_headers(tide.headers, tide.start_range, is_originator, <<>>)
    IN  [ result |-> r.result,
          t |-> IF r.result = "ok" THEN request_ties(t, r.req_keys, passed) ELSE t ]

\* process_tire on the empty link state database: find returns None for
\* every header of the TIRE, the three lists of keys stay empty and the queues
\* are left as they are.
process_tire(t, tire) ==
    LET found == {h \in tire.headers : find(LinkStateDatabase_new, h) # None}
    IN  [result |-> IF found = {} THEN "ok" ELSE "todo", t |-> t]

\* process_tie on the empty link state database: the TIE is not found, and
\* both branches (bump_own_tie for the originator, ls_db.insert otherwise) are
\* todo!().
process_tie(t, is_originator, tie) ==
    IF find(LinkStateDatabase_new, tie.header) = None
    THEN [result |-> "todo", t |-> t]
    ELSE [result |-> "ok", t |-> ack_tie(t, tie.header)]


\* ---------------------------------------------------------------------------
\* TIDE generation (TieStateMachine::generate_tide).
\* TIEIDs are totally ordered; they are numbered in that order, MIN_TIEID the
\* least and MAX_TIEID the greatest. The database maps TIEIDs to TIEs: it is
\* the set of its keys (`ties`), and `listed` is the set of keys whose TIE
\* passes both filters of step 2 (is_tide_entry_filtered, and a positive
\* lifetime or no content).
MaxTieId == 4
MaxTirdesPerPkt == 2
MaxTides == 3

MIN_TIEID == 0
MAX_TIEID == MaxTieId
TIEIDs == MIN_TIEID..MAX_TIEID

\* The elements of a set of TIEIDs in ascending order.
ascending(S) ==
    [i \in 1..Cardinality(S) |-> CHOOSE k \in S : Cardinality({j \in S : j < k}) = i - 1]

\* BTreeMap::range(&next_tide_id..): the keys not below the bound, ascending.
range(ties, next_tide_id) == ascending({k \in ties : k >= next_tide_id})

\* Iterator::filter with the two predicates of step 2.
filter(keys, listed) == SelectSeq(keys, LAMBDA k : k \in listed)

\* Iterator::take: at most n elements from the front.
\* Faulty variant: every element is taken.
take_all(keys, n) == keys

take(keys, n) == SubSeq(keys, 1, IF Len(keys) < n THEN Len(keys) ELSE n)

\* headers.sort()
sort(keys) == ascending({keys[i] : i \in DOMAIN keys})

\* Steps 2 to 5 of one turn of the loop: the TIDE built from the database.
tide_of(ties, listed, next_tide_id, tirdes_per_pkt) ==
    LET headers == sort(take(filter(range(ties, next_tide_id), listed), tirdes_per_pkt))
        start == IF headers = <<>> THEN MIN_TIEID ELSE headers[1]
        end == IF Len(headers) < tirdes_per_pkt THEN MAX_TIEID ELSE headers[Len(headers)]
    IN  [start_range |-> start, end_range |-> end,
         headers |-> [i \in DOMAIN headers |-> [header |-> [tieid |-> headers[i]]]]]

\* The locals of generate_tide before the loop.
TideGen(ties, listed, tirdes_per_pkt) ==
    [ties |-> ties, listed |-> listed, tirdes_per_pkt |-> tirdes_per_pkt,
     next_tide_id |-> MIN_TIEID, tides |-> <<>>, fault |-> ""]

NoTideGen == TideGen(LinkStateDatabase_new, {}, 1)

\* ------------------------------------------------------------------------
\* Node driver (network.rs): one node with two links
\* ------------------------------------------------------------------------
\* Links of the node, by local link id (the index of the interface).
Links == {0, 1}
FirstLink == CHOOSE l \in Links : \A m \in Links : l <= m
LastLink == CHOOSE l \in Links : \A m \in Links : m <= l

\* The links with a peer at the other end.
PeeredLinks == {FirstLink}

\* The configured level of the node (topology description).
ConfiguredLevels == {Undefined, LEAF_LEVEL, 2}

\* LIE packets a link may receive, as (header, body, source address).
Reflections ==
    {None} \cup {Some([originator |-> SelfId, remote_id |-> l]) : l \in Links}

\* A LIE of a well-behaved peer, and the LIEs that depart from one in a
\* single field.
PeerLie(level, neighbor) ==
    [ major_version |-> PROTOCOL_MAJOR_VERSION,
      sender |-> 2,
      level |-> level,
      name |-> "peer",
      local_id |-> 0,
      flood_port |-> "flood_port",
      link_mtu_size |-> Some(DEFAULT_MTU_SIZE),
      neighbor |-> neighbor,
      address |-> "addr_a" ]

OddLies ==
    LET p == PeerLie(1, None)
    IN  { [p EXCEPT !.sender = 3],
          [p EXCEPT !.sender = SelfId],
          [p EXCEPT !.local_id = 1],
          [p EXCEPT !.link_mtu_size = Some(DEFAULT_MTU_SIZE - 1)] }

\* A LIE of a leaf that reflects another link of this node.
LeafLie == PeerLie(LEAF_LEVEL, Some([originator |-> SelfId, remote_id |-> LastLink]))

LiePackets ==
    {PeerLie(level, None) : level \in Levels}
        \cup {PeerLie(1, neighbor) : neighbor \in Reflections}
        \cup OddLies
        \cup {LeafLie}

\* ---------------------------------------------------------------------------
\* Nonce (packet.rs) and the nonce of LinkSocket (network.rs)
\* ---------------------------------------------------------------------------

\* u16 arithmetic is modulo 2^16.
U16_MODULUS == 65536
UNDEFINED_NONCE == 0

\* enum Nonce { Invalid, Valid(NonZeroU16) }
Nonce_Invalid == [valid |-> FALSE, value |-> UNDEFINED_NONCE]
Nonce_Valid(value) == [valid |-> TRUE, value |-> value]

\* impl From<u16> for Nonce
Nonce_from(value) ==
    IF value = UNDEFINED_NONCE THEN Nonce_Invalid ELSE Nonce_Valid(value)

\* Nonce::Valid holds a NonZeroU16.
Nonce_is_valid(nonce) ==
    /\ nonce.valid
    /\ nonce.value \in 1..(U16_MODULUS - 1)
    /\ nonce.value # UNDEFINED_NONCE

\* value.get() + rhs on u16 leaves the range.
u16_add_overflows(a, b) == a + b >= U16_MODULUS

\* impl Add<u16> for Nonce. '+' on u16 panics on overflow in a build with
\* overflow checks and wraps in a build without them. The result: the nonce,
\* or the fault that ended the program.
Nonce_add(nonce, rhs, overflow_checks) ==
    IF ~nonce.valid THEN [nonce |-> Nonce_Invalid, fault |-> ""]
    ELSE IF u16_add_overflows(nonce.value, rhs) /\ overflow_checks
    THEN [nonce |-> nonce, fault |-> "add_overflow"]
    ELSE LET sum == (nonce.value + rhs) % U16_MODULUS
             added == IF sum = UNDEFINED_NONCE THEN sum + 1 ELSE sum
         IN  IF added = 0
             THEN [nonce |-> nonce, fault |-> "unwrap_none"]
             ELSE [nonce |-> Nonce_Valid(added), fault |-> ""]

\* enum PacketNumber { Undefined, Value(u16) }
UNDEFINED_PACKET_NUMBER == 0
PacketNumber_Undefined == [defined |-> FALSE, value |-> UNDEFINED_PACKET_NUMBER]
PacketNumber_Value(value) == [defined |-> TRUE, value |-> value]

\* impl From<u16> for PacketNumber
PacketNumber_from(number) ==
    IF number = UNDEFINED_PACKET_NUMBER THEN PacketNumber_Undefined
    ELSE PacketNumber_Value(number)

\* A packet number that is a Value other than the reserved one.
PacketNumber_is_defined(pn) ==
    /\ pn.defined
    /\ pn.value \in 0..(U16_MODULUS - 1)
    /\ pn.value # UNDEFINED_PACKET_NUMBER

\* The sum modulo 2^16, the reserved value not skipped.
PacketNumber_add_no_skip(pn, rhs) ==
    IF ~pn.defined THEN PacketNumber_Undefined
    ELSE PacketNumber_Value((pn.value + rhs) % U16_MODULUS)

\* packet_number + rhs (the Add<u16> of PacketNumber that send_packet uses):
\* sequence-number arithmetic modulo 2^16 that skips the reserved value.
PacketNumber_add(pn, rhs) ==
    IF ~pn.defined THEN PacketNumber_Undefined
    ELSE LET sum == (pn.value + rhs) % U16_MODULUS
         IN  PacketNumber_Value(IF sum = UNDEFINED_PACKET_NUMBER
                                THEN (sum + 1) % U16_MODULUS ELSE sum)

\* LinkSocket::new: the packet number and the nonces of the socket. added:
\* additions made to the local nonce; wrapped: one of them wrapped, so the build has no overflow
\* checks; fault: the panic that ended the program.
LinkSocket_new ==
    [ packet_number |-> PacketNumber_from(1),
      weak_nonce_local |-> Nonce_from(1),
      weak_nonce_remote |-> Nonce_Invalid,
      added |-> 0,
      wrapped |-> FALSE,
      fault |-> "" ]

\* The network of two nodes A and B on one link: A is configured
\* top-of-fabric, B has no configured level. Each node has its ZTP FSM and the
\* LIE FSM of its one link; wire[n] holds the LIEs sent to n and not yet
\* received.
TOP_OF_FABRIC_LEVEL == 24

PairNodes == {"A", "B"}
PairPeer(n) == IF n = "A" THEN "B" ELSE "A"
PairSystemId(n) == IF n = "A" THEN SelfId ELSE SelfId + 1
PairConfiguredLevel(n) == IF n = "A" THEN TOP_OF_FABRIC_LEVEL ELSE Undefined

PairInit ==
    [ ztp_fsm |-> [n \in PairNodes |-> ZtpStateMachine_new(PairConfiguredLevel(n))],
      lie_fsm |-> [n \in PairNodes |-> LieStateMachine_new(PairConfiguredLevel(n))],
      last_timer_tick |-> [n \in PairNodes |-> Timer_new],
      wire |-> [n \in PairNodes |-> <<>>],
      fault |-> "" ]

VARIABLES
    pc,               \* position of the driver in Node::step / Link::step
    cur,              \* the link Link::step runs for
    steps,            \* node steps begun
    lie_events,       \* Node::step: the events returned by the ZTP FSM
    ztp_fsm,          \* Node.ztp_fsm
    lie_fsm,          \* Link.lie_fsm, per link
    last_timer_tick,  \* Link.last_timer_tick, per link
    packets,          \* LIE packets received so far
    tie,              \* the four queues of the TieStateMachine of a link
    tide_error,       \* process_tide returned its error in this step of the link
    fault,            \* why the program stopped ("" while it runs)
    handled,          \* per link: the last event its LIE FSM processed
    pair,             \* the network of two nodes on one link (PairInit)
    link_socket,      \* LinkSocket: the packet number and the nonces of a link's socket
    tie_entry,        \* the last point of Link::step that decided on running the TIE FSM
    tide_gen,         \* TieStateMachine::generate_tide: the database, the loop's locals, the TIDEs built
    header_cmp,       \* two TIE headers with their remaining lifetimes and how they compare
    envelope,         \* a datagram, the security envelope headers parsed from it and written back
    level_query,      \* ZtpStateMachine::level: a configured level, a HAL and the level reported for them
    tie_call,         \* the last call of try_to_transmit_tie: its header and what is_flood_filtered said
    tide_range        \* TieStateMachine::process_tide after its loop: the database, LASTPROCESSED, the end of the range, TXKEYS

vars == <<pc, cur, steps, lie_events, ztp_fsm, lie_fsm, last_timer_tick, packets, tie, tide_error, fault, handled, pair, link_socket, tie_entry, tide_gen, header_cmp, envelope, level_query, tie_call, tide_range>>

\* tie_entry: the point of Link::step ("tide", "tire", "tie": a packet of
\* that kind was received; "end": the end of the step), the link, the state
\* of its LIE FSM at that point and the entry points of the TIE FSM invoked
\* there.
NoTieEntry == [point |-> "", link |-> FirstLink, state |-> "", invoked |-> {}]

\* The condition of Link::step taken for TwoWay as well.
is_threeway_or_twoway(f) ==
    IF f.lie_state \notin {"TwoWay", "ThreeWay"} THEN "none"
    ELSE IF f.level = Undefined \/ ~IsSome(f.neighbor) THEN "unwrap_none"
    ELSE "some"

\* is_threeway of Link::step: "some" with the LinkInfo in ThreeWay, "none" in
\* the other states, and the panic of unwrap() when the level or the neighbor
\* of a FSM in ThreeWay is None.
is_threeway(f) ==
    IF f.lie_state # "ThreeWay" THEN "none"
    ELSE IF f.level = Undefined \/ ~IsSome(f.neighbor) THEN "unwrap_none"
    ELSE "some"

\* handled[l]: name of the event, the queue it was popped from, the state it was
\* processed in, whether the external event being handled is a TimerTick
\* that found the holdtime of the last valid LIE elapsed in TwoWay or ThreeWay
\* (lapsed), and whether it is a TimerTick that found the multiple-neighbors
\* timer expired in MultipleNeighborsWait (waited).
NoEvent == [name |-> "", from |-> "", state |-> "", lapsed |-> FALSE, waited |-> FALSE]

\* The node, its links and the pair after construction.
InitNode ==
    /\ pc = "ztp"
    /\ cur = FirstLink
    /\ steps = 1
    /\ lie_events = <<>>
    /\ \E configured_level \in ConfiguredLevels :
          /\ ztp_fsm = ZtpStateMachine_new(configured_level)
          /\ lie_fsm = [l \in Links |-> LieStateMachine_new(configured_level)]
    /\ last_timer_tick = [l \in Links |-> Timer_new]
    /\ packets = 0
    /\ tie = TieStateMachine_new
    /\ tide_error = FALSE
    /\ fault = ""
    /\ handled = [l \in Links |-> NoEvent]
    /\ pair = PairInit
    /\ tie_entry = NoTieEntry

\* header_cmp and envelope before anything was compared or parsed.
NoHeaderCmp == [a |-> <<>>, b |-> <<>>, ordering |-> ""]
NoEnvelope == [fields |-> <<>>, bytes |-> <<>>, parsed |-> None, written |-> None]
NoLevelQuery == [configured_level |-> Undefined, highest_available_level |-> Undefined, level |-> None]
NoTieCall == [header |-> None, filtered |-> FALSE, before |-> None]
NoTideRange == [ties |-> {}, last_processed |-> 0, end_range |-> 0, tx_keys |-> None]

\* The variables that hold the inputs of single functions, at rest.
InitAtRest ==
    /\ tide_gen = NoTideGen
    /\ header_cmp = NoHeaderCmp
    /\ envelope = NoEnvelope
    /\ level_query = NoLevelQuery
    /\ tie_call = NoTieCall
    /\ tide_range = NoTideRange

Init ==
    /\ InitNode
    /\ link_socket = LinkSocket_new
    /\ InitAtRest

Panic(reason) == pc' = "panic" /\ fault' = reason

\* Which queue the FSM's event loops pop next: the chained queue is drained
\* after each external event, before the next external event is popped.
\* Faulty variants of NextSource: external events are popped before the
\* chained queue is drained; the chained queue is never drained.
NextSource_external_first(fsm) ==
    IF fsm.external_event_queue # <<>> THEN "external"
    ELSE IF fsm.chained_event_queue # <<>> THEN "chained"
    ELSE "done"

NextSource_external_only(fsm) ==
    IF fsm.external_event_queue # <<>> THEN "external" ELSE "done"

NextSource(fsm) ==
    IF fsm.chained_event_queue # <<>> THEN "chained"
    ELSE IF fsm.external_event_queue # <<>> THEN "external"
    ELSE "done"

PopEvent(fsm, source) ==
    IF source = "chained"
    THEN [fsm EXCEPT !.chained_event_queue = Tail(@)]
    ELSE [fsm EXCEPT !.external_event_queue = Tail(@)]

PeekEvent(fsm, source) ==
    IF source = "chained" THEN Head(fsm.chained_event_queue)
    ELSE Head(fsm.external_event_queue)

\* ZtpStateMachine::process_external_events, one event at a time.
ZtpProcessEvent ==
    /\ pc = "ztp"
    /\ NextSource(ztp_fsm) # "done"
    /\ LET source == NextSource(ztp_fsm)
           event == PeekEvent(ztp_fsm, source)
           z == PopEvent(ztp_fsm, source)
       IN  IF Ztp_unreachable(z.state, event.name)
           THEN /\ Panic("ztp_unreachable")
                /\ ztp_fsm' = z
                /\ UNCHANGED lie_events
           ELSE LET r == Ztp_handle(z, event)
                IN  /\ ztp_fsm' = r.z
                    /\ lie_events' = lie_events \o r.events
                    /\ UNCHANGED <<pc, fault>>
    /\ UNCHANGED <<cur, steps, lie_fsm, last_timer_tick, packets, tie, tide_error, handled, pair, link_socket, tie_entry, tide_gen, header_cmp, envelope, level_query, tie_call, tide_range>>

\* Faulty variant of Broadcast: only the first link gets the events.
Broadcast_first_link(events) ==
    [l \in Links |->
        IF l = FirstLink
        THEN [lie_fsm[l] EXCEPT !.external_event_queue = @ \o events]
        ELSE lie_fsm[l]]

\* Node::step: "Add any LIE events returned by the ZTP to the LIE FSMs".
Broadcast(events) ==
    [l \in Links |->
        [lie_fsm[l] EXCEPT !.external_event_queue = @ \o events]]

ZtpDone ==
    /\ pc = "ztp"
    /\ NextSource(ztp_fsm) = "done"
    /\ lie_fsm' = Broadcast(lie_events)
    /\ pc' = "link_begin"
    /\ cur' = FirstLink
    /\ UNCHANGED <<steps, lie_events, ztp_fsm, last_timer_tick, packets, tie, tide_error, fault, handled, pair, link_socket, tie_entry, tide_gen, header_cmp, envelope, level_query, tie_call, tide_range>>

\* Link::step, recv_packets and the loop over its packets: a received LIE is
\* queued as LieRcvd. The peers are on the links of PeeredLinks; the socket of
\* another link has nothing to read.
LinkRecvLieUpTo(lies, max_packets) ==
    /\ pc = "link_begin"
    /\ cur \in PeeredLinks
    /\ packets < max_packets
    /\ \E p \in lies :
          lie_fsm' = [lie_fsm EXCEPT ![cur] = Lie_push_external_event(@, LieRcvd(p))]
    /\ packets' = packets + 1
    /\ UNCHANGED <<pc, cur, steps, lie_events, ztp_fsm, last_timer_tick, tie, tide_error, fault, handled, pair, link_socket, tie_entry, tide_gen, header_cmp, envelope, level_query, tie_call, tide_range>>

LinkRecvLie(lies) == LinkRecvLieUpTo(lies, MaxPackets)

LinkRecv == LinkRecvLie(LiePackets)

\* Link::step after the packets, up to the call of process_external_events:
\* the timer tick is queued when a second has passed since the last one.
LinkStepBegin ==
    /\ pc = "link_begin"
    /\ LET tick == Timer_is_expired(last_timer_tick[cur])
           f == IF tick THEN Lie_push_external_event(lie_fsm[cur], LieEvent("TimerTick"))
                ELSE lie_fsm[cur]
       IN  /\ lie_fsm' = [lie_fsm EXCEPT ![cur] = f]
           /\ last_timer_tick' =
                 IF tick THEN [last_timer_tick EXCEPT ![cur] = Timer_start]
                 ELSE last_timer_tick
           /\ IF f.chained_event_queue # <<>>
              THEN Panic("assert_chained_empty")
              ELSE pc' = "lie" /\ UNCHANGED fault
    /\ UNCHANGED <<cur, steps, lie_events, ztp_fsm, packets, tie, tide_error, handled, pair, link_socket, tie_entry, tide_gen, header_cmp, envelope, level_query, tie_call, tide_range>>

\* The errors of recv_packet: an io error of the socket other than WouldBlock,
\* and a datagram that parse_and_validate rejects.
RecvPacketErrors == {"recv_io_error", "recv_parsing_error"}

\* recv_packets returns an error: Link::step, Node::step, Network::step and
\* main return it.
LinkRecvError ==
    /\ pc = "link_begin"
    /\ pc' = "error"
    /\ fault' \in RecvPacketErrors
    /\ UNCHANGED <<cur, steps, lie_events, ztp_fsm, lie_fsm, last_timer_tick, packets, tie, tide_error, handled, pair, link_socket, tie_entry, tide_gen, header_cmp, envelope, level_query, tie_call, tide_range>>

LinkCtx(l) == [system_id |-> SelfId, local_link_id |-> l, mtu |-> DEFAULT_MTU_SIZE]

\* LieStateMachine::process_external_events, one event at a time.
LieProcessEvent ==
    /\ pc = "lie"
    /\ NextSource(lie_fsm[cur]) # "done"
    /\ LET source == NextSource(lie_fsm[cur])
           event == PeekEvent(lie_fsm[cur], source)
           f == PopEvent(lie_fsm[cur], source)
           note == [ name |-> event.name, from |-> source, state |-> f.lie_state,
                     lapsed |-> IF source = "external"
                                THEN /\ event.name = "TimerTick"
                                     /\ f.lie_state \in {"TwoWay", "ThreeWay"}
                                     /\ is_lie_expired(f)
                                ELSE handled[cur].lapsed,
                     waited |-> IF source = "external"
                                THEN /\ event.name = "TimerTick"
                                     /\ f.lie_state = "MultipleNeighborsWait"
                                     /\ Timer_is_expired(f.multiple_neighbors_timer)
                                ELSE handled[cur].waited ]
       IN  /\ handled' = [handled EXCEPT ![cur] = note]
           /\ UNCHANGED <<pair, link_socket, tie_entry, tide_gen, header_cmp, envelope, level_query, tie_call, tide_range>>
           /\ IF Lie_unreachable(f.lie_state, event.name)
              THEN /\ Panic("lie_unreachable")
                   /\ lie_fsm' = [lie_fsm EXCEPT ![cur] = f]
                   /\ UNCHANGED ztp_fsm
              ELSE \E send_ok \in BOOLEAN :
                     LET r == process_lie_event(f, ztp_fsm, event, LinkCtx(cur), send_ok)
                     IN  IF r.io_error
                         THEN /\ pc' = "error"
                              /\ fault' = "send_error"
                              /\ lie_fsm' = [lie_fsm EXCEPT ![cur] = r.f]
                              /\ ztp_fsm' = r.z
                         ELSE IF Lie_transition_unwraps_none(r.f, r.new_state)
                         THEN /\ Panic("unwrap_neighbor")
                              /\ lie_fsm' = [lie_fsm EXCEPT ![cur] = r.f]
                              /\ ztp_fsm' = r.z
                         ELSE /\ lie_fsm' = [lie_fsm EXCEPT ![cur] =
                                                Lie_transition_to(r.f, r.new_state)]
                              /\ ztp_fsm' = r.z
                              /\ UNCHANGED <<pc, fault>>
    /\ UNCHANGED <<cur, steps, lie_events, last_timer_tick, packets, tie, tide_error>>

\* The point of Link::step noted in tie_entry, if the specification notes it.
TieEntryNote(noted, point, invoked) ==
    IF noted
    THEN tie_entry' = [point |-> point, link |-> cur,
                       state |-> lie_fsm[cur].lie_state, invoked |-> invoked]
    ELSE UNCHANGED tie_entry

\* process_external_events returns Ok: the rest of Link::step, then the next
\* link, or the next step of the node. In ThreeWay the step goes on to the TIE
\* exchange: generate_tide and send_ties when the tie_timer has expired, then
\* generate_tire. It leaves the LIE and ZTP FSMs alone and returns, or ends in
\* the todo!() of send_ties (tie_done is false).
LinkStepEndOf(noted) ==
    /\ pc = "lie"
    /\ NextSource(lie_fsm[cur]) = "done"
    /\ \E expired \in IF lie_fsm[cur].lie_state = "ThreeWay" THEN BOOLEAN ELSE {FALSE} :
       \E tie_done \in IF expired THEN BOOLEAN ELSE {TRUE} :
          /\ TieEntryNote(noted, "end",
                 (IF expired THEN {"generate_tide", "send_ties"} ELSE {})
                 \cup (IF lie_fsm[cur].lie_state = "ThreeWay" /\ tie_done
                       THEN {"generate_tire"} ELSE {}))
          /\ IF ~tie_done
             THEN /\ Panic("todo")
                  /\ UNCHANGED <<cur, steps, lie_events, tide_error>>
             ELSE IF cur # LastLink
             THEN /\ cur' = cur + 1
                  /\ pc' = "link_begin"
                  /\ tide_error' = FALSE
                  /\ UNCHANGED <<steps, lie_events, fault>>
             ELSE /\ steps < MaxSteps
                  /\ steps' = steps + 1
                  /\ cur' = FirstLink
                  /\ pc' = "ztp"
                  /\ lie_events' = <<>>
                  /\ tide_error' = FALSE
                  /\ UNCHANGED fault
    /\ UNCHANGED <<ztp_fsm, lie_fsm, last_timer_tick, packets, tie, handled, pair, link_socket, tide_gen, header_cmp, envelope, level_query, tie_call, tide_range>>

LinkStepEnd == LinkStepEndOf(FALSE)

\* Time passes: a running timer of the current link reaches its length. The
\* holdtime is the neighbor's (it may be zero) and can elapse while the step
\* runs; the other timers are of one second and elapse between steps.
TimeElapses ==
    /\ \/ /\ pc = "link_begin"
          /\ last_timer_tick[cur] = "running"
          /\ last_timer_tick' = [last_timer_tick EXCEPT ![cur] = "expired"]
          /\ UNCHANGED lie_fsm
       \/ /\ pc = "link_begin"
          /\ lie_fsm[cur].multiple_neighbors_timer = "running"
          /\ lie_fsm' = [lie_fsm EXCEPT ![cur].multiple_neighbors_timer = "expired"]
          /\ UNCHANGED last_timer_tick
       \/ /\ pc \in {"link_begin", "lie"}
          /\ IsSome(lie_fsm[cur].last_valid_lie)
          /\ Unwrap(lie_fsm[cur].last_valid_lie).timer = "running"
          /\ lie_fsm' = [lie_fsm EXCEPT ![cur].last_valid_lie =
                            Some([Unwrap(@) EXCEPT !.timer = "expired"])]
          /\ UNCHANGED last_timer_tick
    /\ UNCHANGED <<pc, cur, steps, lie_events, ztp_fsm, packets, tie, tide_error, fault, handled, pair, link_socket, tie_entry, tide_gen, header_cmp, envelope, level_query, tie_call, tide_range>>

Next ==
    \/ ZtpProcessEvent
    \/ ZtpDone
    \/ LinkRecv
    \/ LinkStepBegin
    \/ LinkRecvError
    \/ LieProcessEvent
    \/ LinkStepEnd
    \/ TimeElapses

Spec == Init /\ [][Next]_vars


\* ------------------------------------------------------------------------
\* Properties of the LIE FSM and of the node driver
\* ------------------------------------------------------------------------
IsPrefix(s, t) == Len(s) <= Len(t) /\ SubSeq(t, 1, Len(s)) = s

Names(queue) == {queue[i].name : i \in 1 .. Len(queue)}

\* The LIE FSM of link l is between two calls of process_external_events.
AtStepBoundary(l) == ~(pc \in {"lie", "panic"} /\ cur = l)

\* C1: an external event is popped from the external queue of a LIE FSM only
\* when its chained queue is empty: the chained events of one external event
\* are all processed before the next external event.
C1_ChainedDrainedFirst ==
    [][\A l \in Links :
          Len(lie_fsm'[l].external_event_queue) < Len(lie_fsm[l].external_event_queue)
              => lie_fsm[l].chained_event_queue = <<>>]_vars

\* C1 witness: the chained events of one external event have been processed
\* and the next external event of the same step is about to be popped.
C1_Witness ==
    \E l \in Links :
        /\ pc = "lie" /\ cur = l
        /\ handled[l].from = "chained"
        /\ lie_fsm[l].chained_event_queue = <<>>
        /\ lie_fsm[l].external_event_queue # <<>>

\* C2: no LIE event is processed in a state in which the code declares the
\* (state, event) pair unreachable.
C2_NoUnreachablePair ==
    \A l \in Links : ~Lie_unreachable(handled[l].state, handled[l].name)

\* C3, as stated: whenever the LIE FSM is in OneWay its neighbor is none.
C3_OneWayHasNoNeighbor ==
    \A l \in Links : lie_fsm[l].lie_state = "OneWay" => lie_fsm[l].neighbor = None

\* C3, amended: a transition that enters OneWay from another state leaves the
\* neighbor none, and whenever the LIE FSM is in OneWay with an empty chained
\* queue its neighbor is none.
C3_OneWayQuiescentHasNoNeighbor ==
    /\ [](\A l \in Links :
            lie_fsm[l].lie_state = "OneWay" /\ lie_fsm[l].chained_event_queue = <<>>
                => lie_fsm[l].neighbor = None)
    /\ [][\A l \in Links :
            lie_fsm[l].lie_state # "OneWay" /\ lie_fsm'[l].lie_state = "OneWay"
                => lie_fsm'[l].neighbor = None]_vars

\* C3 witness: the FSM has entered OneWay from an adjacency it had with a
\* neighbor.
C3_Witness ==
    \E l \in Links :
        /\ handled[l].state \in {"TwoWay", "ThreeWay"}
        /\ lie_fsm[l].lie_state = "OneWay"
        /\ lie_fsm[l].neighbor = None

\* C4: once ValidReflection has been processed in TwoWay the FSM is in
\* ThreeWay.
C4_ValidReflectionGivesThreeWay ==
    \A l \in Links :
        handled[l].name = "ValidReflection" /\ handled[l].state = "TwoWay"
            => lie_fsm[l].lie_state = "ThreeWay"

\* C4 witness: ValidReflection was processed in TwoWay and the FSM is in
\* ThreeWay.
C4_Witness ==
    \E l \in Links :
        /\ handled[l].name = "ValidReflection"
        /\ handled[l].state = "TwoWay"
        /\ lie_fsm[l].lie_state = "ThreeWay"

\* C5: at every step boundary at which the LIE FSM is in OneWay its chained
\* queue is empty, also when the step ended with the error of a failed send.
C5_OneWayBoundaryChainedEmpty ==
    \A l \in Links :
        lie_fsm[l].lie_state = "OneWay" /\ AtStepBoundary(l)
            => lie_fsm[l].chained_event_queue = <<>>

\* C5 witness: SEND_LIE failed in OneWay and the step returned the error.
C5_Witness ==
    /\ pc = "error" /\ fault = "send_error"
    /\ handled[cur].name = "SendLie"
    /\ lie_fsm[cur].lie_state = "OneWay"

\* C9: the LIE events the ZTP FSM returned in this step are at the front of
\* the external queue of every LIE FSM that has not begun to process events
\* in this step; the ZTP FSM emits them only in its own phase of the step,
\* and a LIE FSM processes events only after that phase.
C9_NotYetProcessing(l) ==
    \/ pc = "link_begin" /\ l >= cur
    \/ pc = "lie" /\ l > cur

C9_ZtpEventsQueuedFirst ==
    /\ [](\A l \in Links :
            C9_NotYetProcessing(l) => IsPrefix(lie_events, lie_fsm[l].external_event_queue))
    /\ [][/\ lie_events' # lie_events /\ lie_events' # <<>> => pc = "ztp"
          /\ handled' # handled => pc = "lie"]_vars

\* C9 witness: the ZTP FSM returned LIE events, the first link is processing
\* events and the last link holds the ZTP events in its external queue.
C9_Witness ==
    /\ lie_events # <<>>
    /\ pc = "lie" /\ cur = FirstLink
    /\ handled[cur].from = "external"
    /\ IsPrefix(lie_events, lie_fsm[LastLink].external_event_queue)

\* C10: a TimerTick processed in TwoWay or ThreeWay after the holdtime of the
\* last valid LIE has elapsed pushes HoldtimeExpired, and when the chained
\* events of that TimerTick are drained the FSM is in OneWay.
C10_HoldtimeExpiryGivesOneWay ==
    \A l \in Links :
        handled[l].lapsed =>
            /\ handled[l].name = "TimerTick"
                  => "HoldtimeExpired" \in Names(lie_fsm[l].chained_event_queue)
            /\ lie_fsm[l].chained_event_queue = <<>>
                  => lie_fsm[l].lie_state = "OneWay"

\* C10 witness: the TimerTick found the holdtime elapsed, HoldtimeExpired was
\* processed as the last chained event and the FSM is in OneWay.
C10_Witness ==
    \E l \in Links :
        /\ handled[l].lapsed
        /\ handled[l].name = "HoldtimeExpired"
        /\ lie_fsm[l].chained_event_queue = <<>>
        /\ lie_fsm[l].lie_state = "OneWay"

\* C11: once HoldtimeExpired has been processed by the LIE FSM of a link in
\* TwoWay or ThreeWay, the entry of the ZTP offer table recorded for the
\* neighbor of that link (the sender of its last valid LIE) is marked expired.
C11_HoldtimeExpiryExpiresOffer ==
    \A l \in Links :
        /\ pc = "lie" /\ cur = l
        /\ handled[l].name = "HoldtimeExpired"
        /\ handled[l].state \in {"TwoWay", "ThreeWay"}
        /\ IsSome(lie_fsm[l].last_valid_lie)
        /\ IsSome(ztp_fsm.offers[Unwrap(lie_fsm[l].last_valid_lie).sender])
        => Unwrap(ztp_fsm.offers[Unwrap(lie_fsm[l].last_valid_lie).sender]).expired

\* C12: a TimerTick processed in MultipleNeighborsWait after the
\* multiple-neighbors timer has expired pushes MultipleNeighborsDone, and when
\* the chained events of that TimerTick are drained, and hence when the step
\* of the link ends, the FSM is in OneWay; processing the two events sends
\* nothing, so no send error ends the step before OneWay is reached.
C12_MultipleNeighborsDoneGivesOneWay ==
    \A l \in Links :
        handled[l].waited =>
            /\ handled[l].name = "TimerTick"
                  => lie_fsm[l].chained_event_queue
                         = <<LieEvent("MultipleNeighborsDone")>>
            /\ lie_fsm[l].chained_event_queue = <<>>
                  => lie_fsm[l].lie_state = "OneWay"
            /\ AtStepBoundary(l) => lie_fsm[l].lie_state = "OneWay"
            /\ cur = l /\ pc = "error" => fault # "send_error"

\* C12 witness: the TimerTick found the multiple-neighbors timer expired,
\* MultipleNeighborsDone was processed and the FSM is in OneWay.
C12_Witness ==
    \E l \in Links :
        /\ handled[l].waited
        /\ handled[l].name = "MultipleNeighborsDone"
        /\ handled[l].state = "MultipleNeighborsWait"
        /\ lie_fsm[l].lie_state = "OneWay"

\* The LIE FSM of link l processes the external event at the head of its
\* queue in this step, and that event is a received LIE.
ProcessesLieRcvd(l) ==
    /\ pc = "lie" /\ cur = l
    /\ NextSource(lie_fsm[l]) = "external"
    /\ Head(lie_fsm[l].external_event_queue).name = "LieRcvd"
    /\ Len(lie_fsm'[l].external_event_queue) < Len(lie_fsm[l].external_event_queue)

RcvdLie(l) == Unwrap(Head(lie_fsm[l].external_event_queue).pkt)

\* C13: a received LIE whose sender is the system id of this node pushes no
\* event in any LIE state (the chained queue stays empty, nothing is offered
\* to the ZTP FSM), is not recorded as last valid LIE and leaves the state as
\* it is; where PROCESS_LIE runs (OneWay, TwoWay, ThreeWay) it performs
\* CLEANUP, so the neighbor is none afterwards.
C13_OwnLieOnlyCleansUp ==
    [][\A l \in Links :
          ProcessesLieRcvd(l) /\ RcvdLie(l).sender = SelfId
              => /\ lie_fsm'[l].chained_event_queue = <<>>
                 /\ ztp_fsm' = ztp_fsm
                 /\ lie_fsm'[l].last_valid_lie = lie_fsm[l].last_valid_lie
                 /\ lie_fsm'[l].lie_state = lie_fsm[l].lie_state
                 /\ pc' = "lie"
                 /\ lie_fsm[l].lie_state # "MultipleNeighborsWait"
                       => lie_fsm'[l].neighbor = None]_vars

\* C13 witness: a received LIE was processed in TwoWay, pushed nothing and
\* left the FSM in TwoWay without a neighbor, which only step 1 of PROCESS_LIE
\* does.
C13_Witness ==
    \E l \in Links :
        /\ pc = "lie" /\ cur = l
        /\ handled[l].name = "LieRcvd" /\ handled[l].state = "TwoWay"
        /\ lie_fsm[l].lie_state = "TwoWay"
        /\ lie_fsm[l].neighbor = None
        /\ lie_fsm[l].chained_event_queue = <<>>

\* C14: when PROCESS_LIE runs (OneWay, TwoWay, ThreeWay) on a received LIE
\* that passes step 1 and carries another MTU than the socket's, it performs
\* CLEANUP and pushes UpdateZTPOffer and then MTUMismatch, nothing else, and
\* does not record the packet as last valid LIE.
C14_MtuMismatchPushesOfferThenMismatch ==
    [][\A l \in Links :
          /\ ProcessesLieRcvd(l)
          /\ lie_fsm[l].lie_state # "MultipleNeighborsWait"
          /\ ~lie_is_rejected(RcvdLie(l), SelfId)
          /\ RcvdLie(l).link_mtu_size # Some(LinkCtx(l).mtu)
          => /\ lie_fsm'[l].chained_event_queue
                   = <<LieEvent("UpdateZTPOffer"), LieEvent("MTUMismatch")>>
             /\ lie_fsm'[l].neighbor = None
             /\ lie_fsm'[l].last_valid_lie = lie_fsm[l].last_valid_lie
             /\ ztp_fsm' = ztp_fsm]_vars

\* C14 witness: a LIE received in TwoWay was found to carry another MTU: the
\* two events are queued and the neighbor is gone.
C14_Witness ==
    \E l \in Links :
        /\ pc = "lie" /\ cur = l
        /\ handled[l].name = "LieRcvd" /\ handled[l].state = "TwoWay"
        /\ lie_fsm[l].neighbor = None
        /\ lie_fsm[l].chained_event_queue
              = <<LieEvent("UpdateZTPOffer"), LieEvent("MTUMismatch")>>
\* C16: a send that fails with an io error while the LIE FSM processes an
\* event does not end the run of the node: the node is not left stopped with
\* the error of the send.
C16_SendErrorDoesNotStopNode ==
    ~(pc = "error" /\ fault = "send_error")

\* C17: a received datagram that fails parsing or validation lets no error
\* escape the step of the node: the node is not left stopped with the parsing
\* error, the links after this one unstepped.
C17_BadDatagramDoesNotStopNode ==
    ~(pc = "error" /\ fault = "recv_parsing_error")


\* ------------------------------------------------------------------------
\* The node under LIEs and TIDEs
\* ------------------------------------------------------------------------
\* TIDE packets a link may receive: a start of range and up to MaxTideHeaders
\* headers, sorted by TIEID or not.
TideHeaderSeqs ==
    UNION {[1 .. n -> {h \in TieHeaders : h.seq_nr = 1}] : n \in 1 .. MaxTideHeaders}

Tides == [start_range : TieIds, headers : TideHeaderSeqs]

\* Link::step, the loop over the received packets, for a TIDE: outside
\* ThreeWay it is dropped; in ThreeWay process_tide runs, and the error it
\* returns is logged.
LinkRecvTideOf(noted) ==
    /\ pc = "link_begin"
    /\ cur \in PeeredLinks
    /\ \E tide \in Tides : \E is_originator \in BOOLEAN :
       \E passed \in SUBSET {h \in TieHeaders : \E filtered \in is_request_filtered(h) : ~filtered} :
          CASE is_threeway(lie_fsm[cur]) = "none" ->
                  /\ TieEntryNote(noted, "tide", {})
                  /\ UNCHANGED <<pc, fault, tie, tide_error>>
            [] is_threeway(lie_fsm[cur]) = "unwrap_none" ->
                  /\ TieEntryNote(noted, "tide", {})
                  /\ Panic("unwrap_none") /\ UNCHANGED <<tie, tide_error>>
            [] OTHER ->
                  /\ TieEntryNote(noted, "tide", {"process_tide"})
                  /\ LET r == process_tide(tie, is_originator, tide, passed)
                     IN  CASE r.result = "todo" ->
                                Panic("todo") /\ UNCHANGED <<tie, tide_error>>
                           [] r.result = "error" ->
                                tide_error' = TRUE /\ UNCHANGED <<pc, fault, tie>>
                           [] OTHER ->
                                tie' = r.t /\ UNCHANGED <<pc, fault, tide_error>>
    /\ UNCHANGED <<cur, steps, lie_events, ztp_fsm, lie_fsm, last_timer_tick, packets, handled, pair, link_socket, tide_gen, header_cmp, envelope, level_query, tie_call, tide_range>>

LinkRecvTide == LinkRecvTideOf(FALSE)

\* The LIEs of a leaf at the other end of the link, before and after it has
\* seen this node.
FloodPeerLies ==
    { PeerLie(LEAF_LEVEL, None),
      PeerLie(LEAF_LEVEL, Some([originator |-> SelfId, remote_id |-> FirstLink])) }

LinkRecvPeerLie == LinkRecvLie(FloodPeerLies)

NextFlood ==
    \/ ZtpProcessEvent
    \/ ZtpDone
    \/ LinkRecvPeerLie
    \/ LinkRecvTide
    \/ LinkStepBegin
    \/ LinkRecvError
    \/ LieProcessEvent
    \/ LinkStepEnd
    \/ TimeElapses

SpecFlood == Init /\ [][NextFlood]_vars

\* C15: when a link has received, in ThreeWay, a TIDE with a header below the
\* header before it (or below the start of the range), the step of the link
\* does not end with the LIE FSM in another state than OneWay: the adjacency
\* has been reset.
C15_TideRegressionResetsAdjacency ==
    [][\A l \in Links :
          /\ tide_error /\ pc = "lie" /\ cur = l
          /\ pc' \in {"link_begin", "ztp"}
          => lie_fsm[l].lie_state = "OneWay"]_vars


\* ------------------------------------------------------------------------
\* The ZTP FSM under the offers of the LIE FSMs
\* ------------------------------------------------------------------------
\* The offers send_offer can make: the level and the sender of a valid LIE of
\* a neighbor, and the state of the LIE FSM that makes the offer.
Offers ==
    [ level : Levels, system_id : {2, 3}, state : LieStates, expired : {FALSE} ]

ZtpQuiescent(z) ==
    z.external_event_queue = <<>> /\ z.chained_event_queue = <<>>

\* A LIE FSM calls send_offer between two steps of the ZTP FSM.
ZtpOfferArrives ==
    /\ pc = "ztp"
    /\ ZtpQuiescent(ztp_fsm)
    /\ \E offer \in Offers :
          ztp_fsm' = Ztp_push_external_event(ztp_fsm, NeighborOffer(offer))
    /\ lie_events' = <<>>
    /\ UNCHANGED <<pc, cur, steps, lie_fsm, last_timer_tick, packets, tie, tide_error, fault, handled, pair, link_socket, tie_entry, tide_gen, header_cmp, envelope, level_query, tie_call, tide_range>>

NextZtp ==
    \/ ZtpOfferArrives
    \/ ZtpProcessEvent

SpecZtp == Init /\ [][NextZtp]_vars

\* The greatest level of a set of offers, Undefined for the empty set.
HighestLevel(offers) ==
    IF offers = {} THEN Undefined ELSE SetMax({o.level : o \in offers})

\* C6: whenever the ZTP FSM is quiescent its stored HAL is the greatest level
\* among the offers of its table, and Undefined when the table is empty.
C6_HalIsHighestOffer ==
    ZtpQuiescent(ztp_fsm)
        => ztp_fsm.highest_available_level = HighestLevel(OfferValues(ztp_fsm))

\* C7: whenever the ZTP FSM is quiescent its stored HAT is the greatest level
\* among the offers of its table that are in ThreeWay, and Undefined when
\* there is none.
C7_HatIsHighestThreeWayOffer ==
    ZtpQuiescent(ztp_fsm)
        => ztp_fsm.highest_adjacency_threeway =
              HighestLevel({o \in OfferValues(ztp_fsm) : o.state = "ThreeWay"})


\* ------------------------------------------------------------------------
\* The TIE queues under their operations
\* ------------------------------------------------------------------------
TieUnchanged ==
    UNCHANGED <<tide_error, cur, steps, lie_events, ztp_fsm, lie_fsm, last_timer_tick, packets, handled, pair, link_socket, tie_entry, tide_gen, header_cmp, envelope, level_query, tide_range>>

TryToTransmitTie ==
    /\ pc # "panic"
    /\ \E header \in TieHeaders : \E filtered \in is_flood_filtered(header) :
          /\ tie_call' = [header |-> Some(header), filtered |-> filtered,
                           before |-> Some(tie)]
          /\ IF filtered
             THEN UNCHANGED <<tie, pc, fault>>
             ELSE LET r == try_to_transmit_tie(tie, header)
                  IN  /\ tie' = r.t
                      /\ IF r.todo THEN Panic("todo") ELSE UNCHANGED <<pc, fault>>
    /\ TieUnchanged

AckTie ==
    /\ pc # "panic"
    /\ \E header \in TieHeaders : tie' = ack_tie(tie, header)
    /\ tie_call' = NoTieCall
    /\ UNCHANGED <<pc, fault>>
    /\ TieUnchanged

TieBeenAcked ==
    /\ pc # "panic"
    /\ \E header \in TieHeaders : tie' = tie_been_acked(tie, header)
    /\ tie_call' = NoTieCall
    /\ UNCHANGED <<pc, fault>>
    /\ TieUnchanged

RemoveFromAllQueues ==
    /\ pc # "panic"
    /\ \E header \in TieHeaders : tie' = remove_from_all_queues(tie, header)
    /\ tie_call' = NoTieCall
    /\ UNCHANGED <<pc, fault>>
    /\ TieUnchanged

RequestTie ==
    /\ pc # "panic"
    /\ \E header \in TieHeaders : \E filtered \in is_request_filtered(header) :
          tie' = IF filtered THEN tie ELSE request_tie(tie, header)
    /\ tie_call' = NoTieCall
    /\ UNCHANGED <<pc, fault>>
    /\ TieUnchanged

MoveToRtxList ==
    /\ pc # "panic"
    /\ \E header \in TieHeaders : tie' = move_to_rtx_list(tie, header)
    /\ tie_call' = NoTieCall
    /\ UNCHANGED <<pc, fault>>
    /\ TieUnchanged

NextTie ==
    \/ TryToTransmitTie
    \/ AckTie
    \/ TieBeenAcked
    \/ RemoveFromAllQueues
    \/ RequestTie
    \/ MoveToRtxList

SpecTie == Init /\ [][NextTie]_vars

\* How many headers of the four queues carry the TIEID.
TieIdCount(t, id) ==
    Cardinality({h \in t.transmit_ties : h.tie_id = id})
    + Cardinality({h \in t.acknoledge_ties : h.tie_id = id})
    + Cardinality({h \in t.requested_ties : h.tie_id = id})
    + Cardinality({h \in t.retransmit_ties : h.tie_id = id})

\* C8: after any operation on the TIE queues every TIEID is in at most one of
\* TIES_TX, TIES_ACK, TIES_REQ and TIES_RTX, and at most once in that queue.
C8_TieIdInAtMostOneQueue ==
    pc # "panic" => \A id \in TieIds : TieIdCount(tie, id) <= 1

\* ------------------------------------------------------------------------
\* Two nodes on one loss-free link
\* ------------------------------------------------------------------------
\* LIEs a node may have in flight to the other.
MaxWire == 3

PairCtx(n) ==
    [system_id |-> PairSystemId(n), local_link_id |-> FirstLink, mtu |-> DEFAULT_MTU_SIZE]

\* The LIE send_lie_procedure builds, as the peer's process_lie_procedure
\* reads it.
make_lie(f, ctx) ==
    [ major_version |-> PROTOCOL_MAJOR_VERSION,
      sender |-> ctx.system_id,
      level |-> f.level,
      name |-> "node",
      local_id |-> ctx.local_link_id,
      flood_port |-> "flood_port",
      link_mtu_size |-> Some(ctx.mtu),
      neighbor |-> IF IsSome(f.neighbor)
                   THEN Some([ originator |-> Unwrap(f.neighbor).system_id,
                               remote_id |-> Unwrap(f.neighbor).local_link_id ])
                   ELSE None,
      address |-> "addr_a" ]

\* The (state, event) pairs whose arm calls send_lie_procedure.
Lie_sends(state, name) ==
    \/ name = "SendLie" /\ state \in {"OneWay", "TwoWay", "ThreeWay"}
    \/ name = "NewNeighbor" /\ state = "TwoWay"

\* The one element of a set of one element.
Only(S) == CHOOSE x \in S : TRUE

\* ZtpStateMachine::process_external_events, from s = [z, events]: the fsm
\* with its queues drained and the LIE events returned, or the fault of an
\* unreachable!() arm.
RECURSIVE Ztp_process_external_events(_)
Ztp_process_external_events(s) ==
    Only({ IF NextSource(t.z) = "done"
           THEN [z |-> t.z, events |-> t.events, fault |-> ""]
           ELSE LET source == NextSource(t.z)
                    event == PeekEvent(t.z, source)
                    z0 == PopEvent(t.z, source)
                IN  IF Ztp_unreachable(z0.state, event.name)
                    THEN [z |-> z0, events |-> t.events, fault |-> "ztp_unreachable"]
                    ELSE LET r == Ztp_handle(z0, event)
                         IN  Ztp_process_external_events(
                                 [z |-> r.z, events |-> t.events \o r.events])
           : t \in {s} })

\* LieStateMachine::process_external_events with a socket whose sends
\* succeed, from s = [f, z, sent]: the two fsms with the queues drained and
\* the LIEs sent, or the fault of an unreachable!() arm or of unwrap() on None.
RECURSIVE Lie_process_external_events(_, _)
Lie_process_external_events(s, ctx) ==
    Only({ IF NextSource(t.f) = "done"
           THEN [f |-> t.f, z |-> t.z, sent |-> t.sent, fault |-> ""]
           ELSE LET source == NextSource(t.f)
                    event == PeekEvent(t.f, source)
                    f0 == PopEvent(t.f, source)
                IN  IF Lie_unreachable(f0.lie_state, event.name)
                    THEN [f |-> f0, z |-> t.z, sent |-> t.sent, fault |-> "lie_unreachable"]
                    ELSE LET r == process_lie_event(f0, t.z, event, ctx, TRUE)
                             out == IF Lie_sends(f0.lie_state, event.name)
                                    THEN Append(t.sent, make_lie(f0, ctx)) ELSE t.sent
                         IN  IF Lie_transition_unwraps_none(r.f, r.new_state)
                             THEN [f |-> r.f, z |-> r.z, sent |-> out,
                                   fault |-> "unwrap_neighbor"]
                             ELSE Lie_process_external_events(
                                      [f |-> Lie_transition_to(r.f, r.new_state),
                                       z |-> r.z, sent |-> out], ctx)
           : t \in {s} })

\* Link::step up to the call of process_external_events: the LIE FSM of node n
\* with the ZTP events, the LIE received (recv_packets reads one datagram) and
\* the TimerTick queued.
PairLinkStepBegin(n, lie_events_of_ztp, ticks) ==
    LET f_ztp == [pair.lie_fsm[n] EXCEPT !.external_event_queue = @ \o lie_events_of_ztp]
        f_rcvd == IF pair.wire[n] = <<>> THEN f_ztp
                  ELSE Lie_push_external_event(f_ztp, LieRcvd(Head(pair.wire[n])))
    IN  IF ticks THEN Lie_push_external_event(f_rcvd, LieEvent("TimerTick")) ELSE f_rcvd

\* Node::step of node n, with Link::step of its link. tick: a second has
\* passed since the last TimerTick. tie_done: the TIE exchange at the end of a
\* step in ThreeWay returns (it ends in the todo!() of send_ties otherwise).
PairNodeStepOf(n, tick, tie_done) ==
    \E zr \in {Ztp_process_external_events([z |-> pair.ztp_fsm[n], events |-> <<>>])} :
    \E ticks \in {Timer_is_expired(pair.last_timer_tick[n]) \/ tick} :
    \E lr \in {IF zr.fault # ""
               THEN [f |-> pair.lie_fsm[n], z |-> zr.z, sent |-> <<>>, fault |-> zr.fault]
               ELSE Lie_process_external_events(
                        [f |-> PairLinkStepBegin(n, zr.events, ticks), z |-> zr.z,
                         sent |-> <<>>], PairCtx(n))} :
        /\ Len(pair.wire[PairPeer(n)]) + Len(lr.sent) <= MaxWire
        /\ pair' = [ ztp_fsm |-> [pair.ztp_fsm EXCEPT ![n] = lr.z],
                     lie_fsm |-> [pair.lie_fsm EXCEPT ![n] = lr.f],
                     last_timer_tick |->
                         IF zr.fault = "" /\ ticks
                         THEN [pair.last_timer_tick EXCEPT ![n] = Timer_start]
                         ELSE pair.last_timer_tick,
                     wire |-> [m \in PairNodes |->
                                 IF m = n
                                 THEN (IF zr.fault = "" /\ pair.wire[n] # <<>>
                                       THEN Tail(pair.wire[n]) ELSE pair.wire[n])
                                 ELSE pair.wire[m] \o lr.sent],
                     fault |-> IF lr.fault # "" THEN lr.fault
                               ELSE IF lr.f.lie_state = "ThreeWay" /\ ~tie_done
                               THEN "todo" ELSE "" ]

PairUnchanged ==
    UNCHANGED <<pc, cur, steps, lie_events, ztp_fsm, lie_fsm, last_timer_tick, packets,
                tie, tide_error, fault, handled, link_socket, tie_entry, tide_gen, header_cmp, envelope, level_query, tie_call, tide_range>>

\* A step of node n before a second has passed since its last TimerTick.
PairNodeStep(n) ==
    /\ pair.fault = ""
    /\ \E tie_done \in BOOLEAN : PairNodeStepOf(n, FALSE, tie_done)
    /\ PairUnchanged

\* A step of node n after a second has passed; the peer has received the LIEs
\* sent to it before.
PairNodeTick(n) ==
    /\ pair.fault = ""
    /\ pair.wire[PairPeer(n)] = <<>>
    /\ \E tie_done \in BOOLEAN : PairNodeStepOf(n, TRUE, tie_done)
    /\ PairUnchanged

NextPair ==
    \/ \E n \in PairNodes : PairNodeStep(n)
    \/ \E n \in PairNodes : PairNodeTick(n)

\* Fair stepping: every node is stepped again and again, and time passes.
SpecPair ==
    /\ Init /\ [][NextPair]_vars
    /\ \A n \in PairNodes : WF_vars(PairNodeStep(n)) /\ SF_vars(PairNodeTick(n))

PairThreeWay(n) == pair.lie_fsm[n].lie_state = "ThreeWay"

\* C18: under fair stepping of A and B both LIE FSMs eventually reach
\* ThreeWay.
C18_BothReachThreeWay ==
    <>(PairThreeWay("A") /\ PairThreeWay("B"))

\* C19: under fair stepping B's ZTP FSM eventually derives the level one below
\* top-of-fabric and B's LIE FSM has it, and B's offer table eventually holds
\* the offer of A at top-of-fabric level in state ThreeWay.
C19_BDerivesLevelAndHoldsThreeWayOffer ==
    /\ <>(/\ Ztp_level(pair.ztp_fsm["B"]) = TOP_OF_FABRIC_LEVEL - 1
          /\ pair.lie_fsm["B"].level = TOP_OF_FABRIC_LEVEL - 1)
    /\ <>(/\ IsSome(pair.ztp_fsm["B"].offers[PairSystemId("A")])
          /\ Unwrap(pair.ztp_fsm["B"].offers[PairSystemId("A")]).level
                = TOP_OF_FABRIC_LEVEL
          /\ Unwrap(pair.ztp_fsm["B"].offers[PairSystemId("A")]).state = "ThreeWay")



\* ---------------------------------------------------------------------------
\* The local nonce of a socket under additions
\* ---------------------------------------------------------------------------

MaxNonceOffset == 20
MaxIncrement == 3
MaxAdditions == 3

\* The nonces the socket can hold when a packet is sent: the local nonce
\* starts at 1 and grows with every packet, so every valid value is reached;
\* the ones next to the two ends of the range are taken.
NonceInputs ==
    {Nonce_from(v) : v \in 1..MaxNonceOffset}
        \cup {Nonce_from(U16_MODULUS - d) : d \in 1..MaxNonceOffset}

NonceIncrements == 1..MaxIncrement

InitNonce ==
    /\ InitNode
    /\ InitAtRest
    /\ \E nonce \in NonceInputs :
          link_socket = [LinkSocket_new EXCEPT !.weak_nonce_local = nonce]

\* LinkSocket::send_packet: self.weak_nonce_local = self.weak_nonce_local + 1,
\* and the addition with the other increments.
NonceAdd ==
    /\ link_socket.fault = ""
    /\ link_socket.added < MaxAdditions
    /\ \E rhs \in NonceIncrements :
       \E overflow_checks \in (IF link_socket.wrapped THEN {FALSE} ELSE BOOLEAN) :
          LET r == Nonce_add(link_socket.weak_nonce_local, rhs, overflow_checks)
          IN  link_socket' =
                  [link_socket EXCEPT
                      !.weak_nonce_local = r.nonce,
                      !.added = @ + 1,
                      !.wrapped = @ \/ (r.fault = "" /\ u16_add_overflows(
                                          link_socket.weak_nonce_local.value, rhs)),
                      !.fault = r.fault]
    /\ UNCHANGED <<pc, cur, steps, lie_events, ztp_fsm, lie_fsm, last_timer_tick, packets,
                   tie, tide_error, fault, handled, pair, tie_entry, tide_gen, header_cmp, envelope, level_query, tie_call, tide_range>>

NextNonce == NonceAdd

SpecNonce == InitNonce /\ [][NextNonce]_vars

\* C20: every addition to a valid nonce yields a valid nonce, never the
\* reserved value: the sum wraps around at 16 bits, the reserved value is
\* skipped and no addition fails on overflow.
C20_NonceAddYieldsValidNonce ==
    link_socket.added > 0 =>
        /\ link_socket.fault = ""
        /\ Nonce_is_valid(link_socket.weak_nonce_local)


\* ---------------------------------------------------------------------------
\* The packet number and the local nonce of a socket that sends packets
\* ---------------------------------------------------------------------------

\* The socket after v - 1 packets: packet number and local nonce both start
\* at 1 and grow by one with every packet sent.
SendInputs ==
    (1..MaxNonceOffset) \cup {U16_MODULUS - d : d \in 1..MaxNonceOffset}

InitSend ==
    /\ InitNode
    /\ InitAtRest
    /\ \E v \in SendInputs :
          link_socket = [LinkSocket_new EXCEPT !.packet_number = PacketNumber_from(v),
                                               !.weak_nonce_local = Nonce_from(v)]

\* LinkSocket::send_packet: the packet is sent (the outcome of the send is
\* returned after the two additions), then packet_number + 1 and
\* weak_nonce_local + 1.
SendPacket ==
    /\ link_socket.fault = ""
    /\ link_socket.added < MaxAdditions
    /\ \E overflow_checks \in (IF link_socket.wrapped THEN {FALSE} ELSE BOOLEAN) :
          LET r == Nonce_add(link_socket.weak_nonce_local, 1, overflow_checks)
          IN  link_socket' =
                  [link_socket EXCEPT
                      !.packet_number = PacketNumber_add(@, 1),
                      !.weak_nonce_local = r.nonce,
                      !.added = @ + 1,
                      !.wrapped = @ \/ (r.fault = "" /\ u16_add_overflows(
                                          link_socket.weak_nonce_local.value, 1)),
                      !.fault = r.fault]
    /\ UNCHANGED <<pc, cur, steps, lie_events, ztp_fsm, lie_fsm, last_timer_tick, packets,
                   tie, tide_error, fault, handled, pair, tie_entry, tide_gen, header_cmp, envelope, level_query, tie_call, tide_range>>

NextSend == SendPacket

SpecSend == InitSend /\ [][NextSend]_vars

\* C21: the packet number a socket holds after any number of packets sent,
\* whatever packet number it started at, is a Value and never the reserved
\* undefined value.
C21_PacketNumberNeverUndefined ==
    PacketNumber_is_defined(link_socket.packet_number)

\* C21 witness: the packet number passed the end of the 16-bit range and
\* skipped the reserved value.
C21_Witness ==
    /\ link_socket.added = 1
    /\ link_socket.packet_number = PacketNumber_Value(UNDEFINED_PACKET_NUMBER + 1)


\* ---------------------------------------------------------------------------
\* The node under LIEs, TIDEs, TIREs and TIEs: when the TIE FSM runs
\* ---------------------------------------------------------------------------

\* TIRE and TIE packets a link may receive.
Tires == [headers : SUBSET {h \in TieHeaders : h.seq_nr = 1}]
TiePackets == [header : {h \in TieHeaders : h.seq_nr = 1}]

LinkRecvTideNoted == LinkRecvTideOf(TRUE)

\* Link::step, the loop over the received packets, for a TIRE.
LinkRecvTire ==
    /\ pc = "link_begin"
    /\ cur \in PeeredLinks
    /\ \E tire \in Tires :
          CASE is_threeway(lie_fsm[cur]) = "none" ->
                  /\ TieEntryNote(TRUE, "tire", {})
                  /\ UNCHANGED <<pc, fault, tie>>
            [] is_threeway(lie_fsm[cur]) = "unwrap_none" ->
                  /\ TieEntryNote(TRUE, "tire", {})
                  /\ Panic("unwrap_none") /\ UNCHANGED tie
            [] OTHER ->
                  /\ TieEntryNote(TRUE, "tire", {"process_tire"})
                  /\ LET r == process_tire(tie, tire)
                     IN  IF r.result = "todo"
                         THEN Panic("todo") /\ UNCHANGED tie
                         ELSE tie' = r.t /\ UNCHANGED <<pc, fault>>
    /\ UNCHANGED <<cur, steps, lie_events, ztp_fsm, lie_fsm, last_timer_tick, packets,
                   tide_error, handled, pair, link_socket, tide_gen, header_cmp, envelope, level_query, tie_call, tide_range>>

\* Link::step, the loop over the received packets, for a TIE.
LinkRecvTie ==
    /\ pc = "link_begin"
    /\ cur \in PeeredLinks
    /\ \E tie_packet \in TiePackets : \E is_originator \in BOOLEAN :
          CASE is_threeway(lie_fsm[cur]) = "none" ->
                  /\ TieEntryNote(TRUE, "tie", {})
                  /\ UNCHANGED <<pc, fault, tie>>
            [] is_threeway(lie_fsm[cur]) = "unwrap_none" ->
                  /\ TieEntryNote(TRUE, "tie", {})
                  /\ Panic("unwrap_none") /\ UNCHANGED tie
            [] OTHER ->
                  /\ TieEntryNote(TRUE, "tie", {"process_tie"})
                  /\ LET r == process_tie(tie, is_originator, tie_packet)
                     IN  IF r.result = "todo"
                         THEN Panic("todo") /\ UNCHANGED tie
                         ELSE tie' = r.t /\ UNCHANGED <<pc, fault>>
    /\ UNCHANGED <<cur, steps, lie_events, ztp_fsm, lie_fsm, last_timer_tick, packets,
                   tide_error, handled, pair, link_socket, tide_gen, header_cmp, envelope, level_query, tie_call, tide_range>>

LinkStepEndNoted == LinkStepEndOf(TRUE)

NextTieEntry ==
    \/ ZtpProcessEvent
    \/ ZtpDone
    \/ LinkRecvPeerLie
    \/ LinkRecvTideNoted
    \/ LinkRecvTire
    \/ LinkRecvTie
    \/ LinkStepBegin
    \/ LinkRecvError
    \/ LieProcessEvent
    \/ LinkStepEndNoted
    \/ TimeElapses

SpecTieEntry == Init /\ [][NextTieEntry]_vars

\* The entry point of the TIE FSM that a point of Link::step is for.
TieEntryOf(point) ==
    CASE point = "tide" -> {"process_tide"}
      [] point = "tire" -> {"process_tire"}
      [] point = "tie" -> {"process_tie"}
      [] OTHER -> {"generate_tide", "send_ties", "generate_tire"}

ZtpShortTic ==
    /\ pc = "ztp"
    /\ ZtpQuiescent(ztp_fsm)
    /\ ztp_fsm' = Ztp_push_external_event(ztp_fsm, ZtpEvent("ShortTic"))
    /\ lie_events' = <<>>
    /\ UNCHANGED <<pc, cur, steps, lie_fsm, last_timer_tick, packets, tie, tide_error, fault, handled, pair, link_socket, tie_entry, tide_gen, header_cmp, envelope, level_query, tie_call, tide_range>>

\* The configuration changes between two steps of the ZTP FSM: the
\* configured level or the leaf flags.
ZtpConfigurationChanges ==
    /\ pc = "ztp"
    /\ ZtpQuiescent(ztp_fsm)
    /\ \E event \in {ChangeLocalConfiguredLevel(lvl) : lvl \in ConfiguredLevels}
                       \cup {ZtpEvent("ChangeLocalHierarchyIndications")} :
          ztp_fsm' = Ztp_push_external_event(ztp_fsm, event)
    /\ lie_events' = <<>>
    /\ UNCHANGED <<pc, cur, steps, lie_fsm, last_timer_tick, packets, tie, tide_error, fault, handled, pair, link_socket, tie_entry, tide_gen, header_cmp, envelope, level_query, tie_call, tide_range>>

NextZtpEvents ==
    \/ ZtpOfferArrives
    \/ ZtpShortTic
    \/ ZtpConfigurationChanges
    \/ ZtpProcessEvent

SpecZtpEvents == Init /\ [][NextZtpEvents]_vars

\* C23: no run of the ZTP FSM under NeighborOffer, ShortTic and configuration
\* events processes an event in a state whose arm is unreachable!().
C23_ZtpPairsAllDefined ==
    fault # "ztp_unreachable"

\* The ZTP FSM processes, as its next event, the event called name in state.
ZtpProcesses(state, name) ==
    /\ pc = "ztp"
    /\ NextSource(ztp_fsm) # "done"
    /\ ztp_fsm.state = state
    /\ PeekEvent(ztp_fsm, NextSource(ztp_fsm)).name = name
    /\ ztp_fsm' # ztp_fsm

\* C30: ComputationDone processed in ComputeBestOffer moves the ZTP FSM to
\* UpdatingClients.
C30_ComputationDoneGivesUpdatingClients ==
    [][ZtpProcesses("ComputeBestOffer", "ComputationDone")
          => ztp_fsm'.state = "UpdatingClients"]_vars

\* ---------------------------------------------------------------------------
\* TIDE generation alone: generate_tide over any database of at most
\* MaxTieId + 1 TIEs, any outcome of the filters and any TIRDEs_PER_PKT up to
\* MaxTirdesPerPkt. One action is one turn of the loop.
\* ---------------------------------------------------------------------------
InitTide ==
    /\ InitNode
    /\ link_socket = LinkSocket_new
    /\ header_cmp = NoHeaderCmp
    /\ envelope = NoEnvelope
    /\ level_query = NoLevelQuery
    /\ tie_call = NoTieCall
    /\ tide_range = NoTideRange
    /\ \E ties \in SUBSET TIEIDs :
          \E listed \in SUBSET ties :
             \E tirdes_per_pkt \in 1..MaxTirdesPerPkt :
                tide_gen = TideGen(ties, listed, tirdes_per_pkt)

\* One turn of `while next_tide_id != MAX_TIEID`. The remaining lifetime of a
\* carried header is todo!(): a TIDE that carries a header either stops the
\* program there or is built with the lifetimes the missing code supplies; a
\* TIDE without headers is built as coded.
GenerateTideTurn ==
    /\ tide_gen.fault = ""
    /\ tide_gen.next_tide_id # MAX_TIEID
    /\ Len(tide_gen.tides) < MaxTides
    /\ \E tide \in {tide_of(tide_gen.ties, tide_gen.listed, tide_gen.next_tide_id,
                            tide_gen.tirdes_per_pkt)} :
          \E lifetime_known \in (IF tide.headers = <<>> THEN {TRUE} ELSE BOOLEAN) :
             tide_gen' = IF lifetime_known
                         THEN [tide_gen EXCEPT !.tides = Append(@, tide),
                                               !.next_tide_id = tide.end_range]
                         ELSE [tide_gen EXCEPT !.fault = "todo"]
    /\ UNCHANGED <<pc, cur, steps, lie_events, ztp_fsm, lie_fsm, last_timer_tick, packets,
                   tie, tide_error, fault, handled, pair, link_socket, tie_entry,
                   header_cmp, envelope, level_query, tie_call, tide_range>>

NextTide == GenerateTideTurn

SpecTide == InitTide /\ [][NextTide]_vars

\* C24: in every TIDE that generate_tide builds, every carried header's TIEID
\* lies between start_range and end_range, the headers are in ascending
\* TIEID order, and there are at most TIRDEs_PER_PKT of them.
C24_TideRangeOrderAndSize ==
    \A i \in DOMAIN tide_gen.tides :
       LET tide == tide_gen.tides[i]
       IN  /\ \A j \in DOMAIN tide.headers :
                 /\ tide.start_range <= tide.headers[j].header.tieid
                 /\ tide.headers[j].header.tieid <= tide.end_range
           /\ \A j, k \in DOMAIN tide.headers :
                 j < k => tide.headers[j].header.tieid <= tide.headers[k].header.tieid
           /\ Len(tide.headers) <= tide_gen.tirdes_per_pkt

\* Two TIDEs built, the second a full chunk of two headers that does not end
\* the range.
C24_Witness ==
    /\ Len(tide_gen.tides) = 2
    /\ Len(tide_gen.tides[2].headers) = 2
    /\ tide_gen.tides[2].end_range # MAX_TIEID
    /\ tide_gen.tides[2].headers[1].header.tieid # tide_gen.tides[2].headers[2].header.tieid

\* ---------------------------------------------------------------------------
\* Comparison of TIE headers (wrapper.rs): TIEHeader and TIEHeaderWithLifetime.
\* ---------------------------------------------------------------------------
MaxLifetime == 3

\* Lifetimes that differ by less than this are to be ignored in comparisons.
lifetime_diff2ignore == 2

\* Ordering of two integers (Ord::cmp).
cmp(a, b) == IF a < b THEN "Less" ELSE IF a > b THEN "Greater" ELSE "Equal"

\* impl Ord for TIEHeader: lexicographic on (tie_id, seq_nr); the origination
\* time and lifetime are not looked at.
TIEHeader_cmp(self, other) ==
    LET by_id == cmp(TieIdRank(self.tie_id), TieIdRank(other.tie_id))
    IN  IF by_id = "Equal" THEN cmp(self.seq_nr, other.seq_nr) ELSE by_id

\* TIEHeader values with the origination fields, and the headers TIDEs and
\* TIREs carry (a header and its remaining lifetime).
TIEHeaderValues ==
    [tie_id : TieIds, seq_nr : 1..MaxSeqNr,
     origination_time : {None, Some(1)}, origination_lifetime : {None, Some(MaxLifetime)}]
TIEHeaderWithLifetimeValues ==
    [header : TIEHeaderValues, remaining_lifetime : 0..MaxLifetime]

\* Faulty variant of header_ordering: the derived ordering of
\* TIEHeaderWithLifetime, which goes on to the remaining lifetime when the
\* headers are equal.
header_ordering_with_lifetime(a, b) ==
    LET by_header == TIEHeader_cmp(a.header, b.header)
    IN  IF by_header = "Equal" THEN cmp(a.remaining_lifetime, b.remaining_lifetime)
        ELSE by_header

\* The comparison that TIDE, TIRE and TIE processing make between a stored
\* and a received header: of the TIEHeader parts alone.
header_ordering(a, b) == TIEHeader_cmp(a.header, b.header)

\* Two headers are drawn and compared.
InitHeaderCmp ==
    /\ InitNode
    /\ link_socket = LinkSocket_new
    /\ tide_gen = NoTideGen
    /\ envelope = NoEnvelope
    /\ level_query = NoLevelQuery
    /\ tie_call = NoTieCall
    /\ tide_range = NoTideRange
    /\ \E a, b \in TIEHeaderWithLifetimeValues :
          header_cmp = [a |-> a, b |-> b, ordering |-> ""]

CompareHeaders ==
    /\ header_cmp.ordering = ""
    /\ header_cmp' = [header_cmp EXCEPT !.ordering = header_ordering(header_cmp.a, header_cmp.b)]
    /\ UNCHANGED <<pc, cur, steps, lie_events, ztp_fsm, lie_fsm, last_timer_tick, packets,
                   tie, tide_error, fault, handled, pair, link_socket, tie_entry,
                   tide_gen, envelope, level_query, tie_call, tide_range>>

NextHeaderCmp == CompareHeaders

SpecHeaderCmp == InitHeaderCmp /\ [][NextHeaderCmp]_vars

\* C25: two headers that agree in every field but the remaining lifetime,
\* with remaining lifetimes less than lifetime_diff2ignore apart, compare
\* equal.
C25_CloseLifetimesCompareEqual ==
    /\ header_cmp.ordering # ""
    /\ header_cmp.a.header = header_cmp.b.header
    /\ AbsDiff(header_cmp.a.remaining_lifetime, header_cmp.b.remaining_lifetime)
          < lifetime_diff2ignore
    => header_cmp.ordering = "Equal"

C25_Witness ==
    /\ header_cmp.ordering = "Equal"
    /\ header_cmp.a.header = header_cmp.b.header
    /\ header_cmp.a.remaining_lifetime # header_cmp.b.remaining_lifetime
    /\ AbsDiff(header_cmp.a.remaining_lifetime, header_cmp.b.remaining_lifetime)
          < lifetime_diff2ignore

\* ---------------------------------------------------------------------------
\* The security envelopes (packet.rs): parse_packet and write of
\* OuterSecurityEnvelopeHeader and TIEOriginSecurityEnvelopeHeader.
\* A datagram is a sequence of bytes (0..255); index 0 of the code is element 1
\* of the sequence.
\* ---------------------------------------------------------------------------
RIFT_MAGIC == 41463
INVALID_KEY_VALUE_KEY == 0
PROTOCOL_MAJOR_VERSION_U8 == 6
BYTE_MODULUS == 256

\* A u32 is held as its two 16-bit halves; 0xFFFF_FFFF is the lifetime written
\* when no TIE origin envelope follows.
U32(hi, lo) == [hi |-> hi, lo |-> lo]
NO_TIE_LIFETIME == U32(U16_MODULUS - 1, U16_MODULUS - 1)

Ok(value) == [err |-> "", value |-> value]
Err(err) == [err |-> err, value |-> <<>>]

\* get_u8, get_u16, get_u32: big-endian reads at an index, OutOfRange when
\* the slice ends before the last byte read.
get_u8(slice, index) ==
    IF Len(slice) < index + 1 THEN Err("OutOfRange") ELSE Ok(slice[index + 1])

get_u16(slice, index) ==
    IF Len(slice) < index + 2 THEN Err("OutOfRange")
    ELSE Ok(slice[index + 1] * BYTE_MODULUS + slice[index + 2])

get_u32(slice, index) ==
    IF Len(slice) < index + 4 THEN Err("OutOfRange")
    ELSE Ok(U32(slice[index + 1] * BYTE_MODULUS + slice[index + 2],
                slice[index + 3] * BYTE_MODULUS + slice[index + 4]))

\* slice.get(from..to) and &slice[from..]
get_range(slice, from, to) ==
    IF Len(slice) < to THEN Err("OutOfRange") ELSE Ok(SubSeq(slice, from + 1, to))
slice_from(slice, from) == SubSeq(slice, from + 1, Len(slice))

\* KeyID: impl From<u8> / From<u32> for KeyID
KeyID_Invalid == [valid |-> FALSE, id |-> INVALID_KEY_VALUE_KEY]
KeyID_Valid(id) == [valid |-> TRUE, id |-> id]
KeyID_from(number) ==
    IF number = INVALID_KEY_VALUE_KEY THEN KeyID_Invalid ELSE KeyID_Valid(number)

\* OuterSecurityEnvelopeHeader::parse_packet: the header, the payload after
\* it and the payload with the nonces.
OuterSecurityEnvelopeHeader_parse_packet(bytes) ==
    LET rift_magic == get_u16(bytes, 0)
        packet_number == get_u16(bytes, 2)
        reserved == get_u8(bytes, 4)
        major_version == get_u8(bytes, 5)
        outer_key_id == get_u8(bytes, 6)
        fingerprint_length == get_u8(bytes, 7)
        fingerprint_end == 8 + fingerprint_length.value * 4
        security_fingerprint == get_range(bytes, 8, fingerprint_end)
        weak_nonce_local == get_u16(bytes, fingerprint_end)
        weak_nonce_remote == get_u16(bytes, fingerprint_end + 2)
        lifetime == get_u32(bytes, fingerprint_end + 4)
    IN  IF rift_magic.err # "" THEN Err(rift_magic.err)
        ELSE IF rift_magic.value # RIFT_MAGIC THEN Err("NotMagical")
        ELSE IF packet_number.err # "" THEN Err(packet_number.err)
        ELSE IF reserved.err # "" THEN Err(reserved.err)
        ELSE IF major_version.err # "" THEN Err(major_version.err)
        ELSE IF major_version.value # PROTOCOL_MAJOR_VERSION_U8 THEN Err("WrongMajorVersion")
        ELSE IF outer_key_id.err # "" THEN Err(outer_key_id.err)
        ELSE IF fingerprint_length.err # "" THEN Err(fingerprint_length.err)
        ELSE IF security_fingerprint.err # "" THEN Err(security_fingerprint.err)
        ELSE IF weak_nonce_local.err # "" THEN Err(weak_nonce_local.err)
        ELSE IF weak_nonce_remote.err # "" THEN Err(weak_nonce_remote.err)
        ELSE IF lifetime.err # "" THEN Err(lifetime.err)
        ELSE Ok([header |->
                    [packet_number |-> PacketNumber_from(packet_number.value),
                     major_version |-> major_version.value,
                     outer_key_id |-> KeyID_from(outer_key_id.value),
                     security_fingerprint |-> security_fingerprint.value,
                     weak_nonce_local |-> Nonce_from(weak_nonce_local.value),
                     weak_nonce_remote |-> Nonce_from(weak_nonce_remote.value),
                     remaining_tie_lifetime |->
                         IF lifetime.value = NO_TIE_LIFETIME THEN None
                         ELSE Some(lifetime.value)],
                 payload |-> slice_from(bytes, fingerprint_end + 8),
                 payload_with_nonces |-> slice_from(bytes, fingerprint_end)])

\* TIEOriginSecurityEnvelopeHeader::parse_packet: the header and the rest.
TIEOriginSecurityEnvelopeHeader_parse_packet(bytes) ==
    LET fingerprint_length == get_u8(bytes, 3)
        fingerprint_end == 4 + fingerprint_length.value * 4
        security_fingerprint == get_range(bytes, 4, fingerprint_end)
    IN  IF Len(bytes) < 3 THEN Err("OutOfRange")
        ELSE IF fingerprint_length.err # "" THEN Err(fingerprint_length.err)
        ELSE IF security_fingerprint.err # "" THEN Err(security_fingerprint.err)
        ELSE Ok([header |->
                    [tie_origin_key_id |->
                         KeyID_from((bytes[1] * BYTE_MODULUS + bytes[2]) * BYTE_MODULUS
                                       + bytes[3]),
                     security_fingerprint |-> security_fingerprint.value],
                 payload |-> slice_from(bytes, fingerprint_end)])

\* to_be_bytes of u8, u16 and u32 values.
\* Faulty variant of u16_to_be_bytes: the low byte first.
u16_to_le_bytes(value) == <<value % BYTE_MODULUS, value \div BYTE_MODULUS>>

u8_to_be_bytes(value) == <<value>>
u16_to_be_bytes(value) == <<value \div BYTE_MODULUS, value % BYTE_MODULUS>>
u32_to_be_bytes(value) == u16_to_be_bytes(value.hi) \o u16_to_be_bytes(value.lo)

\* impl From<PacketNumber> for u16, Nonce::to_be_bytes
u16_from_PacketNumber(value) ==
    IF value.defined THEN value.value ELSE UNDEFINED_PACKET_NUMBER
Nonce_to_be_bytes(nonce) ==
    IF nonce.valid THEN u16_to_be_bytes(nonce.value) ELSE <<0, 0>>

\* OuterSecurityEnvelopeHeader::write: the bytes written.
OuterSecurityEnvelopeHeader_write(self) ==
    LET magic == <<161, 247>>
        packet_number == u16_to_be_bytes(u16_from_PacketNumber(self.packet_number))
        reserved == <<0>>
        major_version == u8_to_be_bytes(self.major_version)
        outer_key_id == IF self.outer_key_id.valid
                        THEN <<self.outer_key_id.id % BYTE_MODULUS>> ELSE <<0>>
        fingerprint_length == <<(Len(self.security_fingerprint) \div 4) % BYTE_MODULUS>>
        remaining_tie_lifetime ==
            u32_to_be_bytes(IF IsSome(self.remaining_tie_lifetime)
                            THEN Unwrap(self.remaining_tie_lifetime) ELSE NO_TIE_LIFETIME)
    IN  magic \o packet_number \o reserved \o major_version \o outer_key_id
          \o fingerprint_length \o self.security_fingerprint
          \o Nonce_to_be_bytes(self.weak_nonce_local)
          \o Nonce_to_be_bytes(self.weak_nonce_remote)
          \o remaining_tie_lifetime

\* TIEOriginSecurityEnvelopeHeader::first_four_bytes and ::write
first_four_bytes(self) ==
    LET id == IF self.tie_origin_key_id.valid THEN self.tie_origin_key_id.id ELSE 0
        be == u32_to_be_bytes(U32(id \div U16_MODULUS, id % U16_MODULUS))
    IN  <<be[2], be[3], be[4], (Len(self.security_fingerprint) \div 4) % BYTE_MODULUS>>

TIEOriginSecurityEnvelopeHeader_write(self) ==
    first_four_bytes(self) \o self.security_fingerprint

\* parse_and_validate without the validation of the fingerprints: the outer
\* header, then the TIE origin header when a remaining TIE lifetime is given.
parse_envelopes(bytes) ==
    LET outer == OuterSecurityEnvelopeHeader_parse_packet(bytes)
    IN  IF outer.err # "" THEN Err(outer.err)
        ELSE IF outer.value.header.remaining_tie_lifetime = None
        THEN Ok([outer |-> outer.value.header, tie |-> None, payload |-> outer.value.payload])
        ELSE LET origin == TIEOriginSecurityEnvelopeHeader_parse_packet(outer.value.payload)
             IN  IF origin.err # "" THEN Err(origin.err)
                 ELSE Ok([outer |-> outer.value.header, tie |-> Some(origin.value.header),
                          payload |-> origin.value.payload])

\* The headers written back, followed by the payload.
write_envelopes(parsed) ==
    OuterSecurityEnvelopeHeader_write(parsed.outer)
       \o (IF IsSome(parsed.tie) THEN TIEOriginSecurityEnvelopeHeader_write(Unwrap(parsed.tie))
           ELSE <<>>)
       \o parsed.payload

\* ---------------------------------------------------------------------------
\* Envelopes alone: a datagram is laid out from field values (the wire layout
\* of the two envelopes), possibly cut short, then parsed, and the parsed
\* headers are written back.
\* ---------------------------------------------------------------------------
Fingerprints == {<<>>, <<71, 185, 46, 253>>}
TIEOriginFields == [tie_origin_key_id : {INVALID_KEY_VALUE_KEY, 66051},
                    fingerprint : Fingerprints]
EnvelopeFields ==
    [magic : {RIFT_MAGIC, RIFT_MAGIC + 1},
     packet_number : {UNDEFINED_PACKET_NUMBER, 2, 258},
     reserved : {0, 1},
     major_version : {PROTOCOL_MAJOR_VERSION_U8, PROTOCOL_MAJOR_VERSION_U8 + 1},
     outer_key_id : {INVALID_KEY_VALUE_KEY, 3},
     fingerprint : Fingerprints,
     weak_nonce_local : {UNDEFINED_NONCE, 32348},
     weak_nonce_remote : {14784},
     tie : {None} \cup {Some(t) : t \in TIEOriginFields},
     lifetime : {U32(9, 14976)},
     payload : {<<>>, <<12, 0>>}]
Cuts == {3, 7, 12, 18}

\* The wire layout of the envelopes (big-endian).
wire_u16(v) == <<v \div BYTE_MODULUS, v % BYTE_MODULUS>>
wire(f) ==
    wire_u16(f.magic) \o wire_u16(f.packet_number) \o <<f.reserved, f.major_version>>
       \o <<f.outer_key_id, Len(f.fingerprint) \div 4>> \o f.fingerprint
       \o wire_u16(f.weak_nonce_local) \o wire_u16(f.weak_nonce_remote)
       \o (IF IsSome(f.tie)
           THEN wire_u16(f.lifetime.hi) \o wire_u16(f.lifetime.lo)
                   \o <<Unwrap(f.tie).tie_origin_key_id \div U16_MODULUS>>
                   \o wire_u16(Unwrap(f.tie).tie_origin_key_id % U16_MODULUS)
                   \o <<Len(Unwrap(f.tie).fingerprint) \div 4>> \o Unwrap(f.tie).fingerprint
           ELSE wire_u16(NO_TIE_LIFETIME.hi) \o wire_u16(NO_TIE_LIFETIME.lo))
       \o f.payload

InitEnvelope ==
    /\ InitNode
    /\ link_socket = LinkSocket_new
    /\ tide_gen = NoTideGen
    /\ header_cmp = NoHeaderCmp
    /\ level_query = NoLevelQuery
    /\ tie_call = NoTieCall
    /\ tide_range = NoTideRange
    /\ \E f \in EnvelopeFields :
          \E cut \in {0} \cup Cuts :
             envelope = [fields |-> f,
                         bytes |-> IF cut = 0 \/ cut >= Len(wire(f)) THEN wire(f)
                                   ELSE SubSeq(wire(f), 1, cut),
                         parsed |-> None, written |-> None]

EnvelopeUnchanged ==
    UNCHANGED <<pc, cur, steps, lie_events, ztp_fsm, lie_fsm, last_timer_tick, packets,
                tie, tide_error, fault, handled, pair, link_socket, tie_entry,
                tide_gen, header_cmp, level_query, tie_call, tide_range>>

ParseEnvelope ==
    /\ envelope.parsed = None
    /\ envelope' = [envelope EXCEPT !.parsed = Some(parse_envelopes(envelope.bytes))]
    /\ EnvelopeUnchanged

WriteEnvelope ==
    /\ IsSome(envelope.parsed)
    /\ Unwrap(envelope.parsed).err = ""
    /\ envelope.written = None
    /\ envelope' = [envelope EXCEPT
                       !.written = Some(write_envelopes(Unwrap(envelope.parsed).value))]
    /\ EnvelopeUnchanged

NextEnvelope == ParseEnvelope \/ WriteEnvelope

SpecEnvelope == InitEnvelope /\ [][NextEnvelope]_vars

\* The parsed headers hold the field values the datagram was laid out from.
ParsedFieldsMatch ==
    LET f == envelope.fields
        p == Unwrap(envelope.parsed).value
    IN  /\ p.outer.packet_number =
              (IF f.packet_number = UNDEFINED_PACKET_NUMBER THEN PacketNumber_Undefined
               ELSE PacketNumber_Value(f.packet_number))
        /\ p.outer.major_version = f.major_version
        /\ p.outer.outer_key_id =
              (IF f.outer_key_id = INVALID_KEY_VALUE_KEY THEN KeyID_Invalid
               ELSE KeyID_Valid(f.outer_key_id))
        /\ p.outer.security_fingerprint = f.fingerprint
        /\ p.outer.weak_nonce_local =
              (IF f.weak_nonce_local = UNDEFINED_NONCE THEN Nonce_Invalid
               ELSE Nonce_Valid(f.weak_nonce_local))
        /\ p.outer.weak_nonce_remote = Nonce_Valid(f.weak_nonce_remote)
        /\ p.outer.remaining_tie_lifetime =
              (IF IsSome(f.tie) THEN Some(f.lifetime) ELSE None)
        /\ IsSome(p.tie) <=> IsSome(f.tie)
        /\ IsSome(f.tie) =>
              /\ Unwrap(p.tie).tie_origin_key_id =
                    (IF Unwrap(f.tie).tie_origin_key_id = INVALID_KEY_VALUE_KEY
                     THEN KeyID_Invalid ELSE KeyID_Valid(Unwrap(f.tie).tie_origin_key_id))
              /\ Unwrap(p.tie).security_fingerprint = Unwrap(f.tie).fingerprint
        /\ p.payload = f.payload

\* C26 as stated: every datagram that parses (right magic and version, long
\* enough) is reproduced byte for byte by writing the parsed headers back,
\* and the parsed headers hold the encoded field values.
C26_ParseThenWriteIsIdentity ==
    IsSome(envelope.written) =>
       /\ Unwrap(envelope.written) = envelope.bytes
       /\ ParsedFieldsMatch

\* C26 amended: the same for datagrams whose reserved byte is zero; the
\* parsed headers hold the encoded field values whatever the reserved byte.
C26_ParseThenWriteIsIdentityReservedZero ==
    IsSome(envelope.written) =>
       /\ envelope.bytes[5] = 0 => Unwrap(envelope.written) = envelope.bytes
       /\ ParsedFieldsMatch

\* A datagram with both envelopes and both fingerprints, a valid key id and a
\* payload, parsed and written back.
C26_Witness ==
    /\ IsSome(envelope.written)
    /\ Unwrap(envelope.written) = envelope.bytes
    /\ IsSome(envelope.fields.tie)
    /\ envelope.fields.fingerprint # <<>>
    /\ Unwrap(envelope.fields.tie).fingerprint # <<>>
    /\ envelope.fields.outer_key_id # INVALID_KEY_VALUE_KEY
    /\ envelope.fields.payload # <<>>

\* ---------------------------------------------------------------------------
\* An adjacency with one peer: the node receives up to MaxLies LIEs of the
\* same peer that differ in the neighbor they reflect (none, this link of
\* this node, another link of this node).
\* ---------------------------------------------------------------------------
MaxLies == 4

AdjacentLies == {PeerLie(1, neighbor) : neighbor \in Reflections}

LinkRecvAdjacentLie == LinkRecvLieUpTo(AdjacentLies, MaxLies)

NextAdjacent ==
    \/ ZtpProcessEvent
    \/ ZtpDone
    \/ LinkRecvAdjacentLie
    \/ LinkStepBegin
    \/ LieProcessEvent
    \/ LinkStepEnd

SpecAdjacent == Init /\ [][NextAdjacent]_vars

\* The received LIE that link l processes gets as far as CHECK_THREE_WAY in
\* PROCESS_LIE: it passes steps 1 to 4 and comes from the neighbor already
\* held, unchanged, or no neighbor is held.
ReachesCheckThreeWay(l) ==
    LET f == lie_fsm[l]
        packet == RcvdLie(l)
    IN  /\ ProcessesLieRcvd(l)
        /\ f.lie_state # "MultipleNeighborsWait"
        /\ ~lie_is_rejected(packet, LinkCtx(l).system_id)
        /\ packet.link_mtu_size = Some(LinkCtx(l).mtu)
        /\ accept_lie(f, packet.level)
        /\ \/ f.neighbor = None
           \/ /\ Unwrap(f.neighbor).system_id = packet.sender
              /\ Unwrap(f.neighbor).level = packet.level
              /\ Unwrap(f.neighbor).address = packet.address
              /\ Unwrap(f.neighbor).flood_port = packet.flood_port
              /\ Unwrap(f.neighbor).name = packet.name
              /\ Unwrap(f.neighbor).local_link_id = packet.local_id

\* The reflection of the received LIE names this node and this link.
ReflectsThisLink(l) ==
    /\ IsSome(RcvdLie(l).neighbor)
    /\ Unwrap(RcvdLie(l).neighbor).originator = LinkCtx(l).system_id
    /\ Unwrap(RcvdLie(l).neighbor).remote_id = LinkCtx(l).local_link_id

\* The events of CHECK_THREE_WAY among those the processing of the received
\* LIE has pushed.
ThreeWayCheckEvents == {LieEvent("ValidReflection"), LieEvent("MultipleNeighbors"),
                        LieEvent("NeighborDroppedReflection")}
PushedByCheck(l) ==
    SelectSeq(lie_fsm'[l].chained_event_queue, LAMBDA e : e \in ThreeWayCheckEvents)

\* C27: CHECK_THREE_WAY in ThreeWay pushes NeighborDroppedReflection for a LIE
\* without reflection, nothing for a LIE that reflects this node and link,
\* and MultipleNeighbors for a LIE with any other reflection.
C27_CheckThreeWayInThreeWay ==
    [][\A l \in Links :
          ReachesCheckThreeWay(l) /\ lie_fsm[l].lie_state = "ThreeWay"
             => PushedByCheck(l) =
                   IF RcvdLie(l).neighbor = None
                   THEN <<LieEvent("NeighborDroppedReflection")>>
                   ELSE IF ReflectsThisLink(l) THEN <<>>
                   ELSE <<LieEvent("MultipleNeighbors")>>]_vars

\* C28: CHECK_THREE_WAY in TwoWay pushes ValidReflection for a LIE that
\* reflects this node and link, MultipleNeighbors for a LIE with any other
\* reflection and nothing for a LIE without reflection; a LIE received in
\* OneWay or MultipleNeighborsWait has none of these events pushed.
C28_CheckThreeWayInOtherStates ==
    [][\A l \in Links :
          /\ ReachesCheckThreeWay(l) /\ lie_fsm[l].lie_state = "TwoWay"
                => PushedByCheck(l) =
                      IF RcvdLie(l).neighbor = None THEN <<>>
                      ELSE IF ReflectsThisLink(l) THEN <<LieEvent("ValidReflection")>>
                      ELSE <<LieEvent("MultipleNeighbors")>>
          /\ ProcessesLieRcvd(l)
                /\ lie_fsm[l].lie_state \in {"OneWay", "MultipleNeighborsWait"}
                => PushedByCheck(l) = <<>>]_vars

\* A LIE that reflects another link was processed in TwoWay and
\* MultipleNeighbors is queued behind UpdateZTPOffer.
C28_Witness ==
    \E l \in Links :
        /\ pc = "lie" /\ cur = l
        /\ handled[l].name = "LieRcvd" /\ handled[l].state = "TwoWay"
        /\ lie_fsm[l].chained_event_queue
              = <<LieEvent("UpdateZTPOffer"), LieEvent("MultipleNeighbors")>>

\* ---------------------------------------------------------------------------
\* An adjacency with one peer and a HAT: as SpecAdjacent, and the LIE FSM of
\* a link is also handed the HATChanged event that the ZTP FSM publishes to
\* the links when its highest adjacency three-way changes.
\* ---------------------------------------------------------------------------
LinkHatChanged ==
    /\ pc = "link_begin"
    /\ cur \in PeeredLinks
    /\ lie_fsm[cur].highest_adjacency_threeway = Undefined
    /\ \A i \in DOMAIN lie_fsm[cur].external_event_queue :
          lie_fsm[cur].external_event_queue[i].name # "HATChanged"
    /\ \E hat \in 1..MaxLevel :
          lie_fsm' = [lie_fsm EXCEPT ![cur] =
                         Lie_push_external_event(@, LieLevelEvent("HATChanged", hat))]
    /\ UNCHANGED <<pc, cur, steps, lie_events, ztp_fsm, last_timer_tick, packets, tie,
                   tide_error, fault, handled, pair, link_socket, tie_entry, tide_gen,
                   header_cmp, envelope, level_query, tie_call, tide_range>>

NextLeafHat ==
    \/ ZtpProcessEvent
    \/ ZtpDone
    \/ LinkRecvAdjacentLie
    \/ LinkHatChanged
    \/ LinkStepBegin
    \/ LieProcessEvent
    \/ LinkStepEnd

SpecLeafHat == Init /\ [][NextLeafHat]_vars

\* The received LIE that link l processes gets as far as step 4 of
\* PROCESS_LIE (the level check): it passes steps 1 to 3.
ReachesLevelCheck(l) ==
    /\ ProcessesLieRcvd(l)
    /\ lie_fsm[l].lie_state # "MultipleNeighborsWait"
    /\ ~lie_is_rejected(RcvdLie(l), LinkCtx(l).system_id)
    /\ RcvdLie(l).link_mtu_size = Some(LinkCtx(l).mtu)

\* C29: in step 4 of PROCESS_LIE a node at leaf level accepts the header of a
\* LIE with a defined level when its HAT is undefined or the level of the LIE
\* equals its HAT: UnacceptableHeader is not pushed.
C29_LeafAcceptsLevelOfHat ==
    [][\A l \in Links :
          /\ ReachesLevelCheck(l)
          /\ lie_fsm[l].level = LEAF_LEVEL
          /\ RcvdLie(l).level # Undefined
          /\ \/ lie_fsm[l].highest_adjacency_threeway = Undefined
             \/ RcvdLie(l).level = lie_fsm[l].highest_adjacency_threeway
          => \A i \in DOMAIN lie_fsm'[l].chained_event_queue :
                lie_fsm'[l].chained_event_queue[i] # LieEvent("UnacceptableHeader")]_vars

\* ---------------------------------------------------------------------------
\* Entry to UpdatingClients
\* ---------------------------------------------------------------------------
\* The step of the ZTP FSM that enters UpdatingClients from another state.
EntersUpdatingClients ==
    /\ pc = "ztp"
    /\ NextSource(ztp_fsm) # "done"
    /\ ztp_fsm.state # "UpdatingClients"
    /\ ztp_fsm'.state = "UpdatingClients"

\* The ZTP FSM as transition_to finds it: after the arm of the event.
AtEntry ==
    process_ztp_event(PopEvent(ztp_fsm, NextSource(ztp_fsm)),
                      PeekEvent(ztp_fsm, NextSource(ztp_fsm))).z

\* The LIE events the step added to the events the ZTP FSM returns.
Emitted ==
    {lie_events'[i] : i \in (Len(lie_events) + 1) .. Len(lie_events')}

ResendsPublished ==
    /\ LieLevelEvent("HALChanged", AtEntry.highest_available_level) \in Emitted
            <=> AtEntry.hal_needs_resend
    /\ LieLevelEvent("HATChanged", AtEntry.highest_adjacency_threeway) \in Emitted
            <=> AtEntry.hat_needs_resend
    /\ LieEvent("HALSChanged") \in Emitted <=> AtEntry.hals_needs_resend
    /\ \A e \in Emitted :
          /\ e.name \in {"HALChanged", "LevelChanged", "HATChanged", "HALSChanged"}
          /\ e.name = "LevelChanged" => e.level = Ztp_level(AtEntry)
    /\ ~ztp_fsm'.hal_needs_resend
    /\ ~ztp_fsm'.hat_needs_resend
    /\ ~ztp_fsm'.hals_needs_resend

\* C31: on every entry to UpdatingClients each pending resend is
\* published as its LIE event, LevelChanged with the level of the node is
\* published exactly when HAL is a defined value, and no resend is pending
\* afterwards.
C31_EntryPublishesResends ==
    [][EntersUpdatingClients
          => /\ ResendsPublished
             /\ (\E e \in Emitted : e.name = "LevelChanged")
                    <=> AtEntry.highest_available_level # Undefined]_vars

\* C31 witness: the ZTP FSM is in UpdatingClients, has returned HALChanged
\* and LevelChanged in this step, and no resend is pending.
C31_Witness ==
    /\ ztp_fsm.state = "UpdatingClients"
    /\ \E i, j \in DOMAIN lie_events :
          /\ lie_events[i].name = "HALChanged"
          /\ lie_events[j].name = "LevelChanged"
    /\ ~ztp_fsm.hal_needs_resend
    /\ ~ztp_fsm.hat_needs_resend

\* ---------------------------------------------------------------------------
\* The level of the node: ZtpStateMachine::level for any configured level and
\* any HAL up to MaxReportedLevel.
\* ---------------------------------------------------------------------------
MaxReportedLevel == 9
ReportedLevels == {Undefined} \cup (0 .. MaxReportedLevel)

InitLevel ==
    /\ InitNode
    /\ link_socket = LinkSocket_new
    /\ tide_gen = NoTideGen
    /\ header_cmp = NoHeaderCmp
    /\ envelope = NoEnvelope
    /\ tie_call = NoTieCall
    /\ tide_range = NoTideRange
    /\ \E configured_level \in ReportedLevels, hal \in ReportedLevels :
          level_query = [configured_level |-> configured_level,
                         highest_available_level |-> hal,
                         level |-> None]

\* self.level() of a ZTP FSM with the configured level and the HAL of the query.
ReportLevel ==
    /\ level_query.level = None
    /\ level_query' =
          [level_query EXCEPT !.level =
              Some(Ztp_level([ZtpStateMachine_new(level_query.configured_level)
                                EXCEPT !.highest_available_level =
                                          level_query.highest_available_level]))]
    /\ UNCHANGED <<pc, cur, steps, lie_events, ztp_fsm, lie_fsm, last_timer_tick,
                   packets, tie, tide_error, fault, handled, pair, link_socket,
                   tie_entry, tide_gen, header_cmp, envelope, tie_call, tide_range>>

NextLevel == ReportLevel

SpecLevel == InitLevel /\ [][NextLevel]_vars

\* C32: the level the ZTP FSM reports is the configured level when one is
\* defined; otherwise it is HAL - 1, not below 0, when HAL is defined, and
\* Undefined when HAL is Undefined.
C32_LevelIsConfiguredOrHalMinusOne ==
    IsSome(level_query.level) =>
        LET configured == level_query.configured_level
            hal == level_query.highest_available_level
            level == Unwrap(level_query.level)
        IN  /\ configured # Undefined => level = configured
            /\ configured = Undefined /\ hal = Undefined => level = Undefined
            /\ configured = Undefined /\ hal = 0 => level = 0
            /\ configured = Undefined /\ hal > 0 => level = hal - 1

\* C32 witness: no configured level and HAL 0: the level reported is 0.
C32_Witness ==
    /\ level_query.configured_level = Undefined
    /\ level_query.highest_available_level = 0
    /\ level_query.level = Some(0)

\* ---------------------------------------------------------------------------
\* The offers table
\* ---------------------------------------------------------------------------
\* The offer of the NeighborOffer the ZTP FSM processes in this step.
ProcessedOffer ==
    Unwrap(PeekEvent(ztp_fsm, NextSource(ztp_fsm)).offer)

ProcessesNeighborOffer ==
    /\ pc = "ztp"
    /\ NextSource(ztp_fsm) # "done"
    /\ PeekEvent(ztp_fsm, NextSource(ztp_fsm)).name = "NeighborOffer"
    /\ ztp_fsm' # ztp_fsm

\* C33: PROCESS_OFFER stores the offer when its level is defined and above
\* LEAF_LEVEL and removes the entry of its system id otherwise, and the
\* offers table never holds an offer whose level is Undefined or at most
\* LEAF_LEVEL.
C33_OffersTableAboveLeafLevel ==
    /\ [](\A o \in OfferValues(ztp_fsm) :
              o.level # Undefined /\ o.level > LEAF_LEVEL)
    /\ [][ProcessesNeighborOffer =>
            ztp_fsm'.offers[ProcessedOffer.system_id] =
                IF ProcessedOffer.level # Undefined /\ ProcessedOffer.level > LEAF_LEVEL
                THEN Some(ProcessedOffer) ELSE None]_vars

\* C33 witness: the offers of two neighbors are stored, and the next offer,
\* of one of them, is at LEAF_LEVEL.
C33_Witness ==
    /\ \A s \in {2, 3} : IsSome(ztp_fsm.offers[s])
    /\ ztp_fsm.chained_event_queue = <<>>
    /\ ztp_fsm.external_event_queue # <<>>
    /\ Head(ztp_fsm.external_event_queue).name = "NeighborOffer"
    /\ Unwrap(Head(ztp_fsm.external_event_queue).offer).level = LEAF_LEVEL

\* ---------------------------------------------------------------------------
\* try_to_transmit_tie
\* ---------------------------------------------------------------------------
\* The last operation on the queues was try_to_transmit_tie with a header
\* that is_flood_filtered let through.
Transmitted ==
    IsSome(tie_call.header) /\ ~tie_call.filtered

\* C34: after try_to_transmit_tie with a header that is not flood-filtered,
\* no header with that TIEID is in TIES_REQ or in TIES_RTX.
C34_TransmitClearsReqAndRtx ==
    Transmitted /\ pc # "panic" =>
        \A h \in tie.requested_ties \cup tie.retransmit_ties :
            h.tie_id # Unwrap(tie_call.header).tie_id

\* C35: try_to_transmit_tie with a header that is not flood-filtered
\* completes; when TIES_ACK held a header of the same TIEID with the same or
\* a higher sequence number, TIES_ACK is as it was and the header was not
\* added to TIES_TX; otherwise TIES_ACK holds no header of that TIEID and
\* TIES_TX holds the header.
C35_TransmitKeepsNewerAck ==
    Transmitted =>
        LET header == Unwrap(tie_call.header)
            before == Unwrap(tie_call.before)
            held == \E k \in before.acknoledge_ties :
                        k.tie_id = header.tie_id /\ k.seq_nr >= header.seq_nr
        IN  /\ pc # "panic"
            /\ held => /\ tie.acknoledge_ties = before.acknoledge_ties
                       /\ tie.transmit_ties = before.transmit_ties
            /\ ~held => /\ \A k \in tie.acknoledge_ties : k.tie_id # header.tie_id
                        /\ header \in tie.transmit_ties

\* ---------------------------------------------------------------------------
\* process_tide after the loop over the headers of the TIDE (step c), for any
\* database of at most MaxTieId + 1 TIEs, any LASTPROCESSED the loop leaves
\* and any end of the range of the TIDE.
\* ---------------------------------------------------------------------------
\* Step c: the headers of the database pushed to TXKEYS, in the order of the
\* BTreeMap.
tx_keys_after_loop(ties, last_processed, end_range) ==
    ascending({tieid \in ties : tieid > last_processed /\ tieid < end_range})

InitTideRange ==
    /\ InitNode
    /\ link_socket = LinkSocket_new
    /\ tide_gen = NoTideGen
    /\ header_cmp = NoHeaderCmp
    /\ envelope = NoEnvelope
    /\ level_query = NoLevelQuery
    /\ tie_call = NoTieCall
    /\ \E ties \in SUBSET TIEIDs, last_processed \in TIEIDs, end_range \in TIEIDs :
          tide_range = [ties |-> ties, last_processed |-> last_processed,
                        end_range |-> end_range, tx_keys |-> None]

ProcessTideAfterLoop ==
    /\ tide_range.tx_keys = None
    /\ tide_range' =
          [tide_range EXCEPT !.tx_keys =
              Some(tx_keys_after_loop(tide_range.ties, tide_range.last_processed,
                                      tide_range.end_range))]
    /\ UNCHANGED <<pc, cur, steps, lie_events, ztp_fsm, lie_fsm, last_timer_tick,
                   packets, tie, tide_error, fault, handled, pair, link_socket,
                   tie_entry, tide_gen, header_cmp, envelope, level_query, tie_call>>

NextTideRange == ProcessTideAfterLoop

SpecTideRange == InitTideRange /\ [][NextTideRange]_vars

\* C36: after step c of process_tide TXKEYS holds every header of the
\* database above LASTPROCESSED and not above the end of the range of the
\* TIDE, the header whose TIEID is the end of the range included.
C36_TxKeysThroughEndRange ==
    IsSome(tide_range.tx_keys) =>
        \A tieid \in tide_range.ties :
            tieid > tide_range.last_processed /\ tieid <= tide_range.end_range
                => \E i \in DOMAIN Unwrap(tide_range.tx_keys) :
                      Unwrap(tide_range.tx_keys)[i] = tieid

\* ---------------------------------------------------------------------------
\* The offer of UpdateZTPOffer
\* ---------------------------------------------------------------------------
\* The LIE FSM of the link processes, as its next event, the UpdateZTPOffer
\* that PROCESS_LIE pushed.
ProcessesUpdateZTPOffer(l) ==
    /\ pc = "lie" /\ cur = l
    /\ NextSource(lie_fsm[l]) = "chained"
    /\ Head(lie_fsm[l].chained_event_queue).name = "UpdateZTPOffer"
    /\ Len(lie_fsm'[l].chained_event_queue) < Len(lie_fsm[l].chained_event_queue)

\* PROCESS_LIE of the received LIE has pushed UpdateZTPOffer.
PushedUpdateZTPOffer(l) ==
    /\ ProcessesLieRcvd(l)
    /\ lie_fsm'[l].chained_event_queue # <<>>
    /\ Head(lie_fsm'[l].chained_event_queue).name = "UpdateZTPOffer"

\* C37: every UpdateZTPOffer that a LIE FSM processes hands the ZTP FSM one
\* NeighborOffer, with the system id and the level of the LIE whose
\* PROCESS_LIE pushed the UpdateZTPOffer: PROCESS_LIE leaves that LIE as the
\* one send_offer reads, and send_offer offers it.
C37_OfferIsOfTheLieThatPushedIt ==
    [][\A l \in Links :
          /\ PushedUpdateZTPOffer(l)
                => /\ IsSome(lie_fsm'[l].last_valid_lie)
                   /\ Unwrap(lie_fsm'[l].last_valid_lie).sender = RcvdLie(l).sender
                   /\ Unwrap(lie_fsm'[l].last_valid_lie).level = RcvdLie(l).level
          /\ ProcessesUpdateZTPOffer(l)
                => /\ IsSome(lie_fsm[l].last_valid_lie)
                   /\ Len(ztp_fsm'.external_event_queue)
                         = Len(ztp_fsm.external_event_queue) + 1
                   /\ LET offered == ztp_fsm'.external_event_queue[
                                         Len(ztp_fsm'.external_event_queue)]
                      IN  /\ offered.name = "NeighborOffer"
                          /\ Unwrap(offered.offer).system_id
                                = Unwrap(lie_fsm[l].last_valid_lie).sender
                          /\ Unwrap(offered.offer).level
                                = Unwrap(lie_fsm[l].last_valid_lie).level]_vars

\* ---------------------------------------------------------------------------
\* The neighbor of an adjacency
\* ---------------------------------------------------------------------------
\* C38: at every step boundary a LIE FSM in TwoWay or ThreeWay has a
\* neighbor, and no unwrap() of the neighbor (on entry to ThreeWay, in
\* is_threeway of Link::step) panics, whatever LIEs are received.
C38_AdjacencyHasNeighbor ==
    /\ fault \notin {"unwrap_neighbor", "unwrap_none"}
    /\ \A l \in Links :
          AtStepBoundary(l) /\ lie_fsm[l].lie_state \in {"TwoWay", "ThreeWay"}
              => IsSome(lie_fsm[l].neighbor)

\* ---------------------------------------------------------------------------
\* Expired offers: the ZTP FSM of a node that keeps being stepped, while LIE
\* FSMs make offers (send_offer) and expire offers (expire_offer_by_id).
\* ---------------------------------------------------------------------------
\* expire_offer_by_id is called between two steps of the ZTP FSM, for a
\* system id whose offer is in the table.
ZtpOfferExpires ==
    /\ pc = "ztp"
    /\ ZtpQuiescent(ztp_fsm)
    /\ \E system_id \in SystemIDs :
          /\ IsSome(ztp_fsm.offers[system_id])
          /\ ~Unwrap(ztp_fsm.offers[system_id]).expired
          /\ ztp_fsm' = expire_offer_by_id(ztp_fsm, system_id)
    /\ UNCHANGED <<pc, cur, steps, lie_events, lie_fsm, last_timer_tick, packets, tie,
                   tide_error, fault, handled, pair, link_socket, tie_entry, tide_gen,
                   header_cmp, envelope, level_query, tie_call, tide_range>>

NextExpiry ==
    \/ ZtpOfferArrives
    \/ ZtpOfferExpires
    \/ ZtpProcessEvent

\* Node::step runs process_external_events of the ZTP FSM in every step: an
\* event in its queues is processed.
SpecExpiry == Init /\ [][NextExpiry]_vars /\ WF_vars(ZtpProcessEvent)

\* The offer of the system id is in the table and marked expired.
ExpiredOffer(system_id) ==
    /\ IsSome(ztp_fsm.offers[system_id])
    /\ Unwrap(ztp_fsm.offers[system_id]).expired

\* The offers of the table that are not marked expired.
LiveOffers == {o \in OfferValues(ztp_fsm) : ~o.expired}

Carried(tide) == {tide.headers[j].header.tieid : j \in DOMAIN tide.headers}

\* NEXT_TIDE_ID at the start of the turn of the loop that built the i-th TIDE.
NextTideIdBefore(i) ==
    IF i = 1 THEN MIN_TIEID ELSE tide_gen.tides[i - 1].end_range

\* C40: generate_tide terminates with finitely many TIDEs, also when
\* TIRDEs_PER_PKT headers or more are selected: every turn of the loop that
\* builds a TIDE moves NEXT_TIDE_ID up (the loop over a fixed database ends
\* exactly then), and no header is carried by two TIDEs of the generation.
C40_TideGenerationEndsWithoutRepeats ==
    /\ \A i \in DOMAIN tide_gen.tides :
          tide_gen.tides[i].end_range > NextTideIdBefore(i)
    /\ \A i, k \in DOMAIN tide_gen.tides :
          i # k => Carried(tide_gen.tides[i]) \cap Carried(tide_gen.tides[k]) = {}

====
